---- MODULE Spec2Model ----
(***************************************************************************)
(* Model of the hybrid matcher of the inventory analyser:                  *)
(*   - the text fast path and the worker hand-off of useAiVision's         *)
(*     analyzeBatch (hooks/useAiVision.ts),                                *)
(*   - the encoder worker's message handler and its lazily loaded          *)
(*     singletons (worker.ts),                                             *)
(*   - the quantity parsing of App's runAnalysisLoop.                      *)
(* Strings are sequences of one-character strings, so that toLowerCase,    *)
(* trim, the regular expressions and the edit distance are computed        *)
(* character by character, as the code computes them.                      *)
(***************************************************************************)
EXTENDS Integers, Sequences, FiniteSets, TLC

\* ------------------------------------------------------------- bounds
\* longest generated OCR hint
MaxHintLen == 4
\* distinct readable crops
NumImages == 2
\* largest batch handed to analyzeBatch in the concurrent model
MaxBatch == 2
\* analyzeBatch calls of one session in the concurrent model
NumCalls == 2
\* distinct values Math.random().toString(36).substring(7) is drawn from
NumIds == 2
\* longest shortlist of a request put to the worker alone
MaxCands == 2
\* longest list of rectangles put to slot detection, apart from grids
MaxRects == 3
\* largest grid of cells put to slot detection
MaxRows == 2
MaxCols == 4
\* most rectangles the slot editor holds
MaxBoxes == 3
\* width and height in pixels of the binary image put to component labelling
PixW == 4
PixH == 3
\* analyses started on one screen, and the rectangles handed to all of them
\* together
NumRuns == 2
MaxSlots == 6

\* ------------------------------------------------------------- strings
UpperChars == <<"A", "B", "C", "D", "E", "F", "G", "H", "I", "J", "K", "L", "M",
                "N", "O", "P", "Q", "R", "S", "T", "U", "V", "W", "X", "Y", "Z">>
LowerChars == <<"a", "b", "c", "d", "e", "f", "g", "h", "i", "j", "k", "l", "m",
                "n", "o", "p", "q", "r", "s", "t", "u", "v", "w", "x", "y", "z">>
DigitChars == <<"0", "1", "2", "3", "4", "5", "6", "7", "8", "9">>

IndexOf(seq, c) ==
  IF \E k \in 1..Len(seq) : seq[k] = c
  THEN CHOOSE k \in 1..Len(seq) : seq[k] = c
  ELSE 0

\* String.prototype.toLowerCase, one character
toLowerChar(c) ==
  LET k == IndexOf(UpperChars, c)
  IN  IF k > 0 THEN LowerChars[k] ELSE c

RECURSIVE LowerFrom(_, _, _)
LowerFrom(s, k, acc) ==
  IF k > Len(s) THEN acc ELSE LowerFrom(s, k + 1, Append(acc, toLowerChar(s[k])))

\* String.prototype.toLowerCase
toLowerCase(s) == LowerFrom(s, 1, << >>)

IsSpace(c) == c = " "

IsDigit(c) == IndexOf(DigitChars, c) > 0

\* String.prototype.trim: white space is removed from both ends only
trim(s) ==
  IF \A k \in 1..Len(s) : IsSpace(s[k])
  THEN << >>
  ELSE LET first == CHOOSE k \in 1..Len(s) :
                      /\ ~IsSpace(s[k])
                      /\ \A m \in 1..(k - 1) : IsSpace(s[m])
           last  == CHOOSE k \in 1..Len(s) :
                      /\ ~IsSpace(s[k])
                      /\ \A m \in (k + 1)..Len(s) : IsSpace(s[m])
       IN  SubSeq(s, first, last)

Min2(x, y) == IF x <= y THEN x ELSE y

\* ------------------------------------------------ levenshteinDistance
\* One row of the matrix: cur holds matrix[i][0..j-1], prev is matrix[i-1].
\* Column j of the matrix is element j + 1 of a row.
RECURSIVE LevRow(_, _, _, _)
LevRow(a, bc, prev, cur) ==
  LET j == Len(cur)
  IN  IF j > Len(a)
      THEN cur
      ELSE LET cell == IF bc = a[j]
                       THEN prev[j]
                       ELSE Min2(prev[j] + 1, Min2(cur[j] + 1, prev[j + 1] + 1))
           IN  LevRow(a, bc, prev, Append(cur, cell))

\* The matrix, row by row: rows holds matrix[0..i-1], the next row is row i.
RECURSIVE LevRows(_, _, _)
LevRows(a, b, rows) ==
  LET i == Len(rows)
  IN  IF i > Len(b)
      THEN rows
      ELSE LevRows(a, b, Append(rows, LevRow(a, b[i], rows[i], <<i>>)))

levenshteinDistance(a, b) ==
  LevRows(a, b, <<[k \in 1..(Len(a) + 1) |-> k - 1]>>)[Len(b) + 1][Len(a) + 1]


\* ------------------------------------------------------------- catalog
\* ITEMS, the catalog: a sequence of items [name, aliases], fixed for a session
VARIABLES ITEMS

Item(n, al) == [name |-> n, aliases |-> al]

Bandage == <<"B", "a", "n", "d", "a", "g", "e">>
HerbalBandage == <<"H", "e", "r", "b", "a", "l", " ", "B", "a", "n", "d", "a", "g", "e">>
Wire == <<"W", "i", "r", "e">>
Lemon == <<"L", "e", "m", "o", "n">>

\* four names of data/items.ts, without aliases
CatalogShipped ==
  <<Item(Bandage, << >>), Item(HerbalBandage, << >>), Item(Wire, << >>), Item(Lemon, << >>)>>

\* short and long names, no aliases
CatalogNames ==
  <<Item(<<"A", "b", "a", "b">>, << >>), Item(<<"b", "b", "b", "b", "b">>, << >>)>>

\* a long name with a short alias, a short name with a long alias
CatalogAliases ==
  <<Item(<<"b", "b", "b", "b", "b">>, << <<"A", "b">> >>),
    Item(<<"A", "a">>, << <<"b", "a", "a", "b", "a">> >>)>>

\* two items that answer to the same lower-cased string
CatalogShared ==
  <<Item(<<"a", "a", "b">>, << >>),
    Item(<<"b", "a", "b", "b", "a", "b">>, << <<"A", "A", "B">>, <<"a", "b", "a">> >>)>>

\* more items than a shortlist holds
CatalogLong ==
  <<Item(<<"c", "c", "c", "c">>, << >>), Item(<<"a", "c">>, << >>),
    Item(<<"b", "c", "c">>, << >>), Item(<<"c">>, << >>),
    Item(<<"a", "b", "c", "c">>, << >>), Item(<<"c", "a">>, << <<"A", "a", "c", "c">> >>),
    Item(<<"c", "b", "c">>, << >>), Item(<<"c", "c">>, << >>),
    Item(<<"b", "c">>, << >>), Item(<<"c", "a", "c">>, << >>),
    Item(<<"a", "c", "c", "c">>, << >>), Item(<<"c", "b">>, << >>)>>

Catalogs == {CatalogShipped, CatalogNames, CatalogAliases, CatalogShared, CatalogLong}

\* [item.name.toLowerCase(), ...(item.aliases || []).map(a => a.toLowerCase())]
candidatesOf(item) ==
  <<toLowerCase(item.name)>> \o [k \in 1..Len(item.aliases) |-> toLowerCase(item.aliases[k])]

RECURSIVE MinOver(_, _, _)
MinOver(seq, k, best) ==
  IF k > Len(seq) THEN best ELSE MinOver(seq, k + 1, Min2(best, seq[k]))

\* Math.min(...candidates.map(c => levenshteinDistance(cleanHint, c)))
distOf(item, cleanHint) ==
  LET cs == candidatesOf(item)
      ds == [k \in 1..Len(cs) |-> levenshteinDistance(cleanHint, cs[k])]
  IN  MinOver(ds, 2, ds[1])

\* Array.prototype.sort((a, b) => a.dist - b.dist): stable, ascending
RECURSIVE InsertByDist(_, _)
InsertByDist(sorted, e) ==
  IF sorted = << >> THEN <<e>>
  ELSE IF sorted[Len(sorted)].dist <= e.dist
       THEN Append(sorted, e)
       ELSE Append(InsertByDist(SubSeq(sorted, 1, Len(sorted) - 1), e), sorted[Len(sorted)])

RECURSIVE SortByDist(_, _, _)
SortByDist(seq, k, acc) ==
  IF k > Len(seq) THEN acc ELSE SortByDist(seq, k + 1, InsertByDist(acc, seq[k]))

\* ITEMS.map(item => ({name: item.name, dist})), from item k on
RECURSIVE MapDist(_, _, _)
MapDist(cleanHint, k, acc) ==
  IF k > Len(ITEMS) THEN acc
  ELSE MapDist(cleanHint, k + 1,
         Append(acc, [name |-> ITEMS[k].name, dist |-> distOf(ITEMS[k], cleanHint)]))

\* the items with their distances, left in the order of the catalog
scoredItemsUnsorted(cleanHint) == MapDist(cleanHint, 1, << >>)

\* ITEMS.map(item => ({name, dist})) followed by the sort
scoredItems(cleanHint) == SortByDist(MapDist(cleanHint, 1, << >>), 1, << >>)

\* ------------------------------------------------------------- results
\* scores are kept in hundredths: 1.0 is 100, 0.95 is 95
Null == [null |-> TRUE, label |-> << >>, score |-> 0]
Match(l, s) == [null |-> FALSE, label |-> l, score |-> s]

ScoreExact == 100
ScoreClose == 95
\* scoredItems[0].dist <= 2
MaxCloseDist == 2
\* len > 4
ShortNameLen == 4
\* hintText.length >= 3
MinHintLen == 3
\* scoredItems.slice(0, 10)
ShortlistSize == 10

\* a lookup that compares the names and forgets the aliases
exactMatchNamesOnly(cleanHint) ==
  LET hit(k) == toLowerCase(ITEMS[k].name) = cleanHint
  IN  IF \E k \in 1..Len(ITEMS) : hit(k)
      THEN CHOOSE k \in 1..Len(ITEMS) : hit(k) /\ \A m \in 1..(k - 1) : ~hit(m)
      ELSE 0

\* ITEMS.find(item => name or alias equals cleanHint): index of the first, or 0
exactMatch(cleanHint) ==
  LET hit(k) == LET cs == candidatesOf(ITEMS[k])
                IN  \E c \in 1..Len(cs) : cs[c] = cleanHint
  IN  IF \E k \in 1..Len(ITEMS) : hit(k)
      THEN CHOOSE k \in 1..Len(ITEMS) : hit(k) /\ \A m \in 1..(k - 1) : ~hit(m)
      ELSE 0

\* a guard that accepts a distance of at most 1 only
closeEnoughOneOnly(best) == best.dist <= 1

\* the length guard of the high-confidence branch
closeEnough(best) ==
  /\ best.dist <= MaxCloseDist
  /\ (Len(best.name) > ShortNameLen \/ best.dist <= 1)

\* the fast path of analyzeBatch for one hint: a match, or Null
FastPath(hintText) ==
  IF Len(hintText) >= MinHintLen
  THEN LET cleanHint == trim(toLowerCase(hintText))
           e == exactMatch(cleanHint)
           best == scoredItems(cleanHint)[1]
       IN  IF e > 0 THEN Match(ITEMS[e].name, ScoreExact)
           ELSE IF closeEnough(best) THEN Match(best.name, ScoreClose)
           ELSE Null
  ELSE Null

\* a shortlist that is computed whatever the length of the hint
ShortlistAnyLength(hintText) ==
  LET sc == scoredItems(trim(toLowerCase(hintText)))
  IN  [k \in 1..Min2(ShortlistSize, Len(sc)) |-> sc[k].name]

\* the shortlist sent with a slow-path item
Shortlist(hintText) ==
  IF Len(hintText) > MinHintLen - 1
  THEN LET sc == scoredItems(trim(toLowerCase(hintText)))
       IN  [k \in 1..Min2(ShortlistSize, Len(sc)) |-> sc[k].name]
  ELSE << >>

\* ------------------------------------------------------------- blobs
\* crops 1..NumImages are readable images; one blob is a readable file that is
\* no image, one blob cannot be read by the FileReader
MalformedBlob == NumImages + 1
UnreadableBlob == NumImages + 2
Blobs == 1..(NumImages + 2)

\* blobToDataURL rejects (reader.onerror)
blobToDataURLFails(blob) == blob = UnreadableBlob

\* the data URL of a readable blob names its bytes
blobToDataURL(blob) == blob

\* the loop of analyzeBatch over items k..n; st holds results, pendingIndices,
\* pendingImages and pendingCandidatesList. Indices are 1-based here.
RECURSIVE PrepareFrom(_, _, _)
PrepareFrom(items, k, st) ==
  IF k > Len(items) THEN st
  ELSE LET it == items[k]
           fp == FastPath(it.hintText)
       IN  IF ~fp.null
           THEN PrepareFrom(items, k + 1, [st EXCEPT !.results[k] = fp])
           ELSE IF blobToDataURLFails(it.imageBlob)
           THEN PrepareFrom(items, k + 1,
                  [st EXCEPT !.pendingIndices = Append(@, k)])
           ELSE PrepareFrom(items, k + 1,
                  [st EXCEPT !.pendingIndices = Append(@, k),
                             !.pendingImages = Append(@, blobToDataURL(it.imageBlob)),
                             !.pendingCandidatesList = Append(@, Shortlist(it.hintText))])

PrepareBatch(items) ==
  PrepareFrom(items, 1,
    [results |-> [k \in 1..Len(items) |-> Null],
     pendingIndices |-> << >>, pendingImages |-> << >>, pendingCandidatesList |-> << >>])


\* ------------------------------------------------------------- embeddings
\* A key of embeddings.json is a base name, or a base name followed by
\* '__var_' and a variant tag: var = 0 stands for the bare base name.
Key(b, v) == [base |-> b, var |-> v]

\* Vectors after normalize(): components in tenths, every vector of norm 10,
\* so that a dot product is the cosine in hundredths.
VecPool == << <<10, 0>>, <<0, 10>>, <<6, 8>>, <<8, 6>>, <<-6, 8>>, <<0, -10>> >>

\* the resolved value of loadEmbeddings(): entries in the order of the file
embeddings ==
  <<[key |-> Key(Bandage, 0), vec |-> VecPool[1]],
    [key |-> Key(Bandage, 1), vec |-> VecPool[4]],
    [key |-> Key(Wire, 0), vec |-> VecPool[2]],
    [key |-> Key(Wire, 1), vec |-> VecPool[5]],
    [key |-> Key(Lemon, 0), vec |-> VecPool[3]],
    [key |-> Key(Lemon, 1), vec |-> VecPool[6]]>>

\* the vector the encoder returns for a readable crop
ImageVec(img) == VecPool[((img - 1) % Len(VecPool)) + 1]

\* cosineSimilarity: the dot product over the common length
RECURSIVE DotFrom(_, _, _)
DotFrom(a, b, k) ==
  IF k > Min2(Len(a), Len(b)) THEN 0 ELSE a[k] * b[k] + DotFrom(a, b, k + 1)

cosineSimilarity(a, b) == DotFrom(a, b, 1)

\* Object.keys(embeddings)
allKeys == [k \in 1..Len(embeddings) |-> embeddings[k].key]

HasKey(key) == \E k \in 1..Len(embeddings) : embeddings[k].key = key

\* embeddings[fullLabel], for a key that is present
RefOf(key) == embeddings[CHOOSE k \in 1..Len(embeddings) : embeddings[k].key = key].vec

InSeq(seq, x) == \E k \in 1..Len(seq) : seq[k] = x

\* Set.add on an insertion-ordered set
AddOnce(seq, x) == IF InSeq(seq, x) THEN seq ELSE Append(seq, x)

\* the keys that start with base + '__var_', added in the order of allKeys
RECURSIVE AddVariants(_, _, _)
AddVariants(acc, base, k) ==
  IF k > Len(allKeys) THEN acc
  ELSE AddVariants(IF allKeys[k].base = base /\ allKeys[k].var > 0
                   THEN AddOnce(acc, allKeys[k]) ELSE acc,
                   base, k + 1)

\* initialLabels.forEach(base => ...): the base when it has a vector, then its variants
RECURSIVE Expand(_, _, _)
Expand(initialLabels, k, acc) ==
  IF k > Len(initialLabels) THEN acc
  ELSE LET base == initialLabels[k]
           withBase == IF HasKey(Key(base, 0)) THEN AddOnce(acc, Key(base, 0)) ELSE acc
       IN  Expand(initialLabels, k + 1, AddVariants(withBase, base, 1))

\* a choice of keys that falls back to every key when the shortlist names no
\* stored vector
labelsToCheckOrAll(candidates) ==
  IF Len(candidates) > 0 /\ Expand(candidates, 1, << >>) # << >>
  THEN Expand(candidates, 1, << >>)
  ELSE allKeys

\* the keys scored for one crop
labelsToCheck(candidates) ==
  IF Len(candidates) > 0 THEN Expand(candidates, 1, << >>) ELSE allKeys

\* scoresByLabel: an insertion-ordered map base name -> score, as a sequence
ScoreIndex(scores, base) ==
  IF \E k \in 1..Len(scores) : scores[k].label = base
  THEN CHOOSE k \in 1..Len(scores) : scores[k].label = base
  ELSE 0

\* scores are hundredths, so the -1 of the code is -100 here
Unset == -100

\* const currentMax = scoresByLabel.get(baseLabel) || -1 : a stored 0 reads as -1
currentMaxOf(scores, base) ==
  LET k == ScoreIndex(scores, base)
  IN  IF k = 0 \/ scores[k].score = 0 THEN Unset ELSE scores[k].score

RECURSIVE ScoreAll(_, _, _, _)
ScoreAll(queryVec, labels, k, scores) ==
  IF k > Len(labels) THEN scores
  ELSE LET fullLabel == labels[k]
           score == cosineSimilarity(queryVec, RefOf(fullLabel))
           baseLabel == fullLabel.base
           at == ScoreIndex(scores, baseLabel)
           currentMax == currentMaxOf(scores, baseLabel)
       IN  IF ~HasKey(fullLabel) THEN ScoreAll(queryVec, labels, k + 1, scores)
           ELSE IF score > currentMax
           THEN ScoreAll(queryVec, labels, k + 1,
                  IF at = 0 THEN Append(scores, [label |-> baseLabel, score |-> score])
                  ELSE [scores EXCEPT ![at].score = score])
           ELSE ScoreAll(queryVec, labels, k + 1, scores)

\* scored.sort((a, b) => b.score - a.score): stable, descending
RECURSIVE InsertByScore(_, _)
InsertByScore(sorted, e) ==
  IF sorted = << >> THEN <<e>>
  ELSE IF sorted[Len(sorted)].score >= e.score
       THEN Append(sorted, e)
       ELSE Append(InsertByScore(SubSeq(sorted, 1, Len(sorted) - 1), e), sorted[Len(sorted)])

RECURSIVE SortByScore(_, _, _)
SortByScore(seq, k, acc) ==
  IF k > Len(seq) THEN acc ELSE SortByScore(seq, k + 1, InsertByScore(acc, seq[k]))

\* scored.slice(0, 5)
TopK == 5

Unknown == <<"U", "n", "k", "n", "o", "w", "n">>

\* the ranked list the worker computes for one crop vector and its shortlist
rankCrop(queryVec, candidates) ==
  LET scored == ScoreAll(queryVec, labelsToCheck(candidates), 1, << >>)
      sorted == SortByScore(scored, 1, << >>)
  IN  IF Len(scored) = 0 THEN <<[label |-> Unknown, score |-> 0]>>
      ELSE SubSeq(sorted, 1, Min2(TopK, Len(sorted)))

\* candidatesList[idx], or nothing when the list is shorter than the images
candidatesAt(candidatesList, idx) ==
  IF idx <= Len(candidatesList) THEN candidatesList[idx] ELSE << >>

\* batchVectors.map((queryVec, idx) => ...)
rankBatch(images, candidatesList) ==
  [idx \in 1..Len(images) |->
     rankCrop(ImageVec(images[idx]), candidatesAt(candidatesList, idx))]

\* RawImage.read rejects for a data URL that holds no image
readFails(images) == \E k \in 1..Len(images) : images[k] = MalformedBlob


\* the merge of analyzeBatch: entry idx of the worker's answer goes to
\* results[pendingIndices[idx]]; an answer of null (status 'error') merges nothing
RECURSIVE MergeFrom(_, _, _, _)
MergeFrom(results, pendingIndices, workerResult, idx) ==
  IF idx > Len(workerResult) THEN results
  ELSE MergeFrom(
         IF idx <= Len(pendingIndices) /\ Len(workerResult[idx]) > 0
         THEN [results EXCEPT ![pendingIndices[idx]] =
                 Match(workerResult[idx][1].label, workerResult[idx][1].score)]
         ELSE results,
         pendingIndices, workerResult, idx + 1)

\* a worker answer as the resolver passes it on: results, or null
Answer(st, res) == [status |-> st, results |-> res]

\* a merge that gives up the whole list when the worker answers 'error'
MergeOrNothing(results, pendingIndices, answer) ==
  IF answer.status = "success"
  THEN MergeFrom(results, pendingIndices, answer.results, 1)
  ELSE [k \in 1..Len(results) |-> Null]

Merge(results, pendingIndices, answer) ==
  IF answer.status = "success"
  THEN MergeFrom(results, pendingIndices, answer.results, 1)
  ELSE results

\* ------------------------------------------------------------- quantity
\* the digits of the maximal digit run that starts at position p
RECURSIVE DigitRun(_, _)
DigitRun(s, p) ==
  IF p <= Len(s) /\ IsDigit(s[p]) THEN <<s[p]>> \o DigitRun(s, p + 1) ELSE << >>

\* the first position at or after p that holds no white space
RECURSIVE SkipSpace(_, _)
SkipSpace(s, p) == IF p <= Len(s) /\ IsSpace(s[p]) THEN SkipSpace(s, p + 1) ELSE p

\* parseInt(digits, 10)
RECURSIVE parseIntFrom(_, _, _)
parseIntFrom(digits, k, acc) ==
  IF k > Len(digits) THEN acc
  ELSE parseIntFrom(digits, k + 1, acc * 10 + (IndexOf(DigitChars, digits[k]) - 1))

parseInt(digits) == parseIntFrom(digits, 1, 0)

\* /x\s*(\d+)/i matches at p
XMatchAt(s, p) ==
  /\ toLowerChar(s[p]) = "x"
  /\ DigitRun(s, SkipSpace(s, p + 1)) # << >>

\* the last maximal digit run is the one that ends at the last digit
LastNumber(s) ==
  LET last == CHOOSE k \in 1..Len(s) : IsDigit(s[k]) /\ \A m \in (k + 1)..Len(s) : ~IsDigit(s[m])
      first == CHOOSE k \in 1..last :
                 /\ \A m \in k..last : IsDigit(s[m])
                 /\ (k = 1 \/ ~IsDigit(s[k - 1]))
  IN  SubSeq(s, first, last)

\* the quantity runAnalysisLoop reads from a hint
parseQty(hintText) ==
  IF \E p \in 1..Len(hintText) : XMatchAt(hintText, p)
  THEN LET p == CHOOSE q \in 1..Len(hintText) :
                  XMatchAt(hintText, q) /\ \A m \in 1..(q - 1) : ~XMatchAt(hintText, m)
       IN  parseInt(DigitRun(hintText, SkipSpace(hintText, p + 1)))
  ELSE IF \E k \in 1..Len(hintText) : IsDigit(hintText[k])
  THEN parseInt(LastNumber(hintText))
  ELSE 1


\* ------------------------------------------------------------- rectangles
\* Coordinates are held in quarters of a pixel, so that the halves the code
\* takes of integer pixel values (centres, medians of two values) are exact.
Quarter == 4

Px(n) == Quarter * n

Rect(x, y, w, h) == [x |-> Px(x), y |-> Px(y), width |-> Px(w), height |-> Px(h)]

Max2(x, y) == IF x >= y THEN x ELSE y

Abs(x) == IF x >= 0 THEN x ELSE 0 - x

Area(r) == r.width * r.height

\* the screenshot: its width and height
Image == [width |-> Px(250), height |-> Px(250)]

\* [...values].sort((a, b) => a - b)
InsertNum(acc, v) ==
  LET k == Cardinality({i \in 1..Len(acc) : acc[i] <= v})
  IN  SubSeq(acc, 1, k) \o <<v>> \o SubSeq(acc, k + 1, Len(acc))

RECURSIVE SortNumsFrom(_, _, _)
SortNumsFrom(s, k, acc) ==
  IF k > Len(s) THEN acc ELSE SortNumsFrom(s, k + 1, InsertNum(acc, s[k]))

SortNums(s) == SortNumsFrom(s, 1, << >>)

getMedian(values) ==
  IF Len(values) = 0 THEN 0
  ELSE LET sorted == SortNums(values)
           mid == Len(sorted) \div 2
       IN  IF Len(sorted) % 2 = 0
           THEN (sorted[mid] + sorted[mid + 1]) \div 2
           ELSE sorted[mid + 1]

\* the area two rectangles share, 0 when they only touch or are apart
Intersection(a, b) ==
  LET x1 == Max2(a.x, b.x)
      y1 == Max2(a.y, b.y)
      x2 == Min2(a.x + a.width, b.x + b.width)
      y2 == Min2(a.y + a.height, b.y + b.height)
  IN  IF x2 > x1 /\ y2 > y1 THEN (x2 - x1) * (y2 - y1) ELSE 0

\* candidates.sort((a, b) => b.width * b.height - a.width * a.height)
InsertByArea(acc, r) ==
  LET k == Cardinality({i \in 1..Len(acc) : Area(acc[i]) >= Area(r)})
  IN  SubSeq(acc, 1, k) \o <<r>> \o SubSeq(acc, k + 1, Len(acc))

RECURSIVE SortByAreaFrom(_, _, _)
SortByAreaFrom(s, k, acc) ==
  IF k > Len(s) THEN acc ELSE SortByAreaFrom(s, k + 1, InsertByArea(acc, s[k]))

SortByArea(s) == SortByAreaFrom(s, 1, << >>)

\* performNMS's test of one candidate against one kept rectangle:
\* intersection / candArea > threshold, the threshold in tenths
isDuplicate(cand, exist, tenths) ==
  Intersection(cand, exist) > 0 /\ 10 * Intersection(cand, exist) > tenths * Area(cand)

RECURSIVE NMSFrom(_, _, _, _)
NMSFrom(sorted, k, uniqueSlots, tenths) ==
  IF k > Len(sorted) THEN uniqueSlots
  ELSE IF \E e \in 1..Len(uniqueSlots) : isDuplicate(sorted[k], uniqueSlots[e], tenths)
       THEN NMSFrom(sorted, k + 1, uniqueSlots, tenths)
       ELSE NMSFrom(sorted, k + 1, Append(uniqueSlots, sorted[k]), tenths)

performNMS(candidates, tenths) == NMSFrom(SortByArea(candidates), 1, << >>, tenths)

\* getOverlapRatio(r1, r2) > 0.5: the shared area against the smaller area
overlapsTooMuch(r1, r2) ==
  Intersection(r1, r2) > 0 /\ 2 * Intersection(r1, r2) > Min2(Area(r1), Area(r2))

RECURSIVE OverlapFilterFrom(_, _, _)
OverlapFilterFrom(sorted, k, finalSlots) ==
  IF k > Len(sorted) THEN finalSlots
  ELSE IF \E e \in 1..Len(finalSlots) : overlapsTooMuch(sorted[k], finalSlots[e])
       THEN OverlapFilterFrom(sorted, k + 1, finalSlots)
       ELSE OverlapFilterFrom(sorted, k + 1, Append(finalSlots, sorted[k]))

overlapFilter(allCandidates) == OverlapFilterFrom(SortByArea(allCandidates), 1, << >>)

\* s.x + s.width / 2 and s.y + s.height / 2
CenterX(s) == s.x + s.width \div 2

CenterY(s) == s.y + s.height \div 2

RECURSIVE MapRects(_, _, _, _)
MapRects(slots, what, k, acc) ==
  IF k > Len(slots) THEN acc
  ELSE MapRects(slots, what, k + 1,
                Append(acc, CASE what = "width" -> slots[k].width
                              [] what = "height" -> slots[k].height
                              [] what = "cx" -> CenterX(slots[k])
                              [] what = "cy" -> CenterY(slots[k])))

\* groupCoords(coords, unit * 0.5): the median of every run of sorted
\* coordinates whose neighbours are closer than half a unit
RECURSIVE groupCoordsFrom(_, _, _, _, _)
groupCoordsFrom(coords, unit, i, currentGroup, groups) ==
  IF i > Len(coords) THEN Append(groups, getMedian(currentGroup))
  ELSE IF 2 * (coords[i] - coords[i - 1]) < unit
       THEN groupCoordsFrom(coords, unit, i + 1, Append(currentGroup, coords[i]), groups)
       ELSE groupCoordsFrom(coords, unit, i + 1, <<coords[i]>>,
                            Append(groups, getMedian(currentGroup)))

groupCoords(coords, unit) ==
  IF Len(coords) = 0 THEN << >> ELSE groupCoordsFrom(coords, unit, 2, <<coords[1]>>, << >>)

\* the rectangles fillMissingGridSlots adds, guide crossing by guide crossing
RECURSIVE FillFrom(_, _, _, _, _, _, _, _)
FillFrom(slots, rowGuides, colGuides, unitW, unitH, r, c, finalSlots) ==
  IF r > Len(rowGuides) THEN finalSlots
  ELSE IF c > Len(colGuides)
       THEN FillFrom(slots, rowGuides, colGuides, unitW, unitH, r + 1, 1, finalSlots)
       ELSE LET cx == colGuides[c]
                cy == rowGuides[r]
                exists == \E k \in 1..Len(slots) :
                            /\ 2 * Abs(CenterX(slots[k]) - cx) < unitW
                            /\ 2 * Abs(CenterY(slots[k]) - cy) < unitH
                newX == cx - unitW \div 2
                newY == cy - unitH \div 2
                fits == /\ newX >= 0 /\ newY >= 0
                        /\ newX + unitW <= Image.width
                        /\ newY + unitH <= Image.height
            IN  FillFrom(slots, rowGuides, colGuides, unitW, unitH, r, c + 1,
                         IF ~exists /\ fits
                         THEN Append(finalSlots, [x |-> newX, y |-> newY,
                                                  width |-> unitW, height |-> unitH])
                         ELSE finalSlots)

\* too few rectangles to infer a grid from
MinGridSlots == 3

fillMissingGridSlots(slots) ==
  IF Len(slots) < MinGridSlots THEN slots
  ELSE LET unitW == getMedian(MapRects(slots, "width", 1, << >>))
           unitH == getMedian(MapRects(slots, "height", 1, << >>))
           colGuides == groupCoords(SortNums(MapRects(slots, "cx", 1, << >>)), unitW)
           rowGuides == groupCoords(SortNums(MapRects(slots, "cy", 1, << >>)), unitH)
       IN  FillFrom(slots, rowGuides, colGuides, unitW, unitH, 1, 1, slots)

\* the comparator of the final sort: yDiff < height * 0.05 compares x, else y
rowMajor(a, b) ==
  IF 20 * Abs(a.y - b.y) < Image.height THEN a.x - b.x ELSE a.y - b.y

Sign(n) == IF n < 0 THEN -1 ELSE IF n > 0 THEN 1 ELSE 0

\* a comparator is consistent on the elements of a list when it orders them
\* as a strict weak order does (ECMAScript, Array.prototype.sort)
Consistent(s) ==
  LET N == 1..Len(s)
      c(i, j) == Sign(rowMajor(s[i], s[j]))
  IN  /\ \A i, j \in N : c(i, j) = 0 - c(j, i)
      /\ \A i, j, k \in N : (c(i, j) = 0 /\ c(j, k) = 0) => c(i, k) = 0
      /\ \A i, j, k \in N : (c(i, j) < 0 /\ c(j, k) < 0) => c(i, k) < 0
      /\ \A i, j, k \in N : (c(i, j) = 0 /\ c(j, k) < 0) => c(i, k) < 0
      /\ \A i, j, k \in N : (c(i, j) < 0 /\ c(j, k) = 0) => c(i, k) < 0

InsertByRow(acc, r) ==
  LET k == Cardinality({i \in 1..Len(acc) : rowMajor(acc[i], r) <= 0})
  IN  SubSeq(acc, 1, k) \o <<r>> \o SubSeq(acc, k + 1, Len(acc))

RECURSIVE SortByRowFrom(_, _, _)
SortByRowFrom(s, k, acc) ==
  IF k > Len(s) THEN acc ELSE SortByRowFrom(s, k + 1, InsertByRow(acc, s[k]))

\* slots.sort(rowMajor): the stable sort when the comparator is consistent on
\* the elements; the order is implementation-defined when it is not
sortRowMajor(s) ==
  IF Consistent(s) THEN {SortByRowFrom(s, 1, << >>)}
  ELSE {[i \in 1..Len(s) |-> s[p[i]]] : p \in Permutations(1..Len(s))}

\* part_018: two rectangles touch, overlap or are within MERGE_DIST
MERGE_DIST == 0

isClose(current, other) ==
  ~ \/ current.x > other.x + other.width + MERGE_DIST
    \/ other.x > current.x + current.width + MERGE_DIST
    \/ current.y > other.y + other.height + MERGE_DIST
    \/ other.y > current.y + current.height + MERGE_DIST

\* the smallest rectangle that covers both
Union(a, b) ==
  LET minX == Min2(a.x, b.x)
      minY == Min2(a.y, b.y)
      maxX == Max2(a.x + a.width, b.x + b.width)
      maxY == Max2(a.y + a.height, b.y + b.height)
  IN  [x |-> minX, y |-> minY, width |-> maxX - minX, height |-> maxY - minY]

\* the inner loop over j: current absorbs every unused rectangle close to it
RECURSIVE Absorb(_, _, _, _)
Absorb(rawRects, j, current, used) ==
  IF j > Len(rawRects) THEN [current |-> current, used |-> used]
  ELSE IF j \notin used /\ isClose(current, rawRects[j])
       THEN Absorb(rawRects, j + 1, Union(current, rawRects[j]), used \cup {j})
       ELSE Absorb(rawRects, j + 1, current, used)

\* one pass of the while loop
RECURSIVE MergePass(_, _, _, _)
MergePass(rawRects, i, used, merged) ==
  IF i > Len(rawRects) THEN merged
  ELSE IF i \in used THEN MergePass(rawRects, i + 1, used, merged)
       ELSE LET a == Absorb(rawRects, i + 1, rawRects[i], used \cup {i})
            IN  MergePass(rawRects, i + 1, a.used, Append(merged, a.current))

\* while (changed): a pass changes the list exactly when it shortens it
RECURSIVE mergeTouching(_)
mergeTouching(rawRects) ==
  LET merged == MergePass(rawRects, 1, {}, << >>)
  IN  IF Len(merged) = Len(rawRects) THEN merged ELSE mergeTouching(merged)

\* part_019: intersectX > 0 && intersectY > 0 with
\* mergeDistance = max(width, height) * 0.02
isNear(r1, r2) ==
  LET longest == Max2(Image.width, Image.height)
      overX == Min2(r1.x + r1.width, r2.x + r2.width) - Max2(r1.x, r2.x)
      overY == Min2(r1.y + r1.height, r2.y + r2.height) - Max2(r1.y, r2.y)
  IN  50 * overX + longest > 0 /\ 50 * overY + longest > 0

\* the first pair i < j, by i then j, that is near
NearPairs(candidateSlots) ==
  {p \in (1..Len(candidateSlots)) \X (1..Len(candidateSlots)) :
     p[1] < p[2] /\ isNear(candidateSlots[p[1]], candidateSlots[p[2]])}

FirstPair(S) ==
  CHOOSE p \in S : \A q \in S : p[1] < q[1] \/ (p[1] = q[1] /\ p[2] <= q[2])

\* while (merged): replace the first near pair by its union and start over
RECURSIVE mergeNear(_)
mergeNear(candidateSlots) ==
  IF NearPairs(candidateSlots) = {} THEN candidateSlots
  ELSE LET p == FirstPair(NearPairs(candidateSlots))
           joined == [candidateSlots EXCEPT ![p[1]] = Union(candidateSlots[p[1]], candidateSlots[p[2]])]
       IN  mergeNear(SubSeq(joined, 1, p[2] - 1) \o SubSeq(joined, p[2] + 1, Len(joined)))

\* aspect > 0.5 && aspect < 2.5
validShape(r) == 2 * r.width > r.height /\ 2 * r.width < 5 * r.height

\* ------------------------------------------------------------- slot tool
VARIABLES
  seg,            \* one run of slot detection: its candidates and what it made of them
  detectedBlobs,  \* InventoryImageInput's detectedBlobs, first drawn first
  lastEdit,       \* the last edit of detectedBlobs: its kind, its input, the list before
  pix,            \* component labelling of one binary image, pixel by pixel
  app             \* App: its state variables and its runs of runAnalysisLoop

toolVars == <<seg, detectedBlobs, lastEdit, pix, app>>

NoGrid == [rows |-> 0, cols |-> 0]

NoEdit == [op |-> "none", at |-> [x |-> 0, y |-> 0], before |-> << >>]

ParkedSeg ==
  [pc |-> "off", by |-> "none", grid |-> NoGrid, blobs |-> << >>, unique |-> << >>,
   refined |-> << >>, merged |-> << >>, kept |-> << >>, out |-> << >>]

ParkedPix == [pc |-> "off"]

ParkedApp == [pc |-> "off"]

RestParked == pix = ParkedPix /\ app = ParkedApp

ToolParked == seg = ParkedSeg /\ detectedBlobs = << >> /\ lastEdit = NoEdit /\ RestParked


\* ------------------------------------------------------------- state
VARIABLES
  calls,                  \* analyzeBatch invocations: locals and position
  workerPendingPromises,  \* id -> the call whose resolver is registered (0: none)
  readyState,             \* useAiVision's readyState
  toWorker,               \* messages posted to the worker, in order
  toMain,                 \* messages posted by the worker, in order
  transformers,           \* TRUE once the imported module is stored
  modelPromise,           \* VisionPipeline.modelPromise / processorPromise
  embeddingsPromise,      \* the memoised promise of loadEmbeddings
  handlers,               \* the worker's running onmessage invocations
  loads,                  \* how often each load was started; whether one failed
  session,                \* what the session may still submit: calls, crops per call
  slot, mpc, mPrep, mResults, mQty   \* one slot taken through the matcher alone

mainVars == <<calls, workerPendingPromises, readyState, toWorker, toMain,
              transformers, modelPromise, embeddingsPromise, handlers, loads,
              session>>
matchVars == <<slot, mpc, mPrep, mResults, mQty>>
vars == <<ITEMS, calls, workerPendingPromises, readyState, toWorker, toMain,
          transformers, modelPromise, embeddingsPromise, handlers, loads,
          session, slot, mpc, mPrep, mResults, mQty, seg, detectedBlobs, lastEdit,
          pix, app>>

Calls == 1..NumCalls
Ids == 1..NumIds
\* the id of the 'init' request ('init-sequence'), never drawn by Math.random
InitId == 0

EmptyPrep == PrepareBatch(<< >>)

IdleCall == [pc |-> "idle", items |-> << >>, results |-> << >>, pendingIndices |-> << >>,
             id |-> InitId, status |-> "none", answeredBy |-> 0, cause |-> "none"]

IdleHandler == [pc |-> "none", ret |-> "none", msg |-> [type |-> "none"]]

InitMessage == [type |-> "init", id |-> InitId, images |-> << >>, candidatesList |-> << >>,
                from |-> 0, late |-> FALSE]

\* after useAiVision has mounted: the worker exists, 'init' is posted,
\* readyState is 'loading'
MainInit ==
  /\ calls = [c \in Calls |-> IdleCall]
  /\ workerPendingPromises = [i \in Ids |-> 0]
  /\ readyState = "loading"
  /\ toWorker = <<InitMessage>>
  /\ toMain = << >>
  /\ transformers = FALSE
  /\ modelPromise = "null"
  /\ embeddingsPromise = "null"
  /\ handlers = [h \in 0..NumCalls |-> IdleHandler]
  /\ loads = [imports |-> 0, models |-> 0, fetches |-> 0, failed |-> FALSE]

MatchParked ==
  /\ slot = [hintText |-> << >>, imageBlob |-> 1]
  /\ mpc = "off"
  /\ mPrep = EmptyPrep
  /\ mResults = << >>
  /\ mQty = 0

\* ------------------------------------------------------------- inputs
\* hints of the concurrent model: one that the fast path resolves, one that it
\* does not
HintBandage == <<"b", "a", "n", "d", "a", "g", "e">>
MainHints == {HintBandage, << >>}

\* the fast path never reads the crop, so a resolved hint comes with one crop
MainItems ==
  {[hintText |-> HintBandage, imageBlob |-> 1]} \cup [hintText : {<< >>}, imageBlob : Blobs]

MainBatches(longest) == UNION {[1..n -> MainItems] : n \in 1..longest}

\* ------------------------------------------------------------- analyzeBatch
\* analyzeBatch up to the point where it returns or awaits the worker. The
\* awaits of blobToDataURL inside the loop touch only the call's locals, so the
\* loop is one step. Calls are numbered in the order they are made.
analyzeBatch(c) ==
  /\ calls[c].pc = "idle"
  /\ \A d \in Calls : d < c => calls[d].pc # "idle"
  /\ session.calls > 0
  /\ session' = [session EXCEPT !.calls = @ - 1]
  /\ \E items \in MainBatches(session.batch) :
       LET prep == PrepareBatch(items)
       IN  IF Len(prep.pendingIndices) = 0
           THEN /\ calls' = [calls EXCEPT ![c] =
                     [@ EXCEPT !.pc = "done", !.items = items, !.results = prep.results]]
                /\ UNCHANGED <<workerPendingPromises, toWorker>>
           ELSE \E id \in Ids :
                  /\ calls' = [calls EXCEPT ![c] =
                       [@ EXCEPT !.pc = "waiting", !.items = items,
                                 !.results = prep.results,
                                 !.pendingIndices = prep.pendingIndices, !.id = id]]
                  /\ workerPendingPromises' = [workerPendingPromises EXCEPT ![id] = c]
                  /\ toWorker' = Append(toWorker,
                       [type |-> "analyze_batch", id |-> id,
                        images |-> prep.pendingImages,
                        candidatesList |-> prep.pendingCandidatesList,
                        from |-> c, late |-> loads.failed])
  /\ UNCHANGED <<ITEMS, toolVars, readyState, toMain, transformers, modelPromise,
                 embeddingsPromise, handlers, loads, matchVars>>

\* the two listeners of the worker's 'message' event: handleReady of the hook,
\* then globalWorker.onmessage; the resolved call merges and returns
onWorkerMessage ==
  /\ toMain # << >>
  /\ LET m == Head(toMain)
         c == IF m.id \in Ids THEN workerPendingPromises[m.id] ELSE 0
     IN  /\ toMain' = Tail(toMain)
         /\ readyState' = IF m.status = "ready" THEN "ready"
                          ELSE IF m.status = "error" THEN "error"
                          ELSE readyState
         /\ IF m.status # "ready" /\ c # 0
            THEN /\ calls' = [calls EXCEPT ![c] =
                      [@ EXCEPT !.pc = "done",
                                !.results = Merge(@, calls[c].pendingIndices,
                                                  Answer(m.status, m.results)),
                                !.status = m.status, !.answeredBy = m.of,
                                !.cause = m.cause]]
                 /\ workerPendingPromises' = [workerPendingPromises EXCEPT ![m.id] = 0]
            ELSE UNCHANGED <<calls, workerPendingPromises>>
  /\ UNCHANGED <<ITEMS, toolVars, toWorker, transformers, modelPromise, embeddingsPromise,
                 handlers, loads, session, matchVars>>


\* ------------------------------------------------------------- worker
\* The worker runs one event at a time: a message, the settling of an import,
\* of the model load or of the embeddings fetch, the end of a handler's own
\* decoding and inference. After each event every continuation whose promise
\* has settled runs before the next event is taken (the microtask queue
\* drains). W gathers the worker's state while one event is worked off.
WorkerState ==
  [transformers |-> transformers, modelPromise |-> modelPromise,
   embeddingsPromise |-> embeddingsPromise, handlers |-> handlers,
   loads |-> loads, toMain |-> toMain]

\* self.postMessage of handler h: its answer, tagged with the request it
\* answers and with what made it fail
Reply(W, h, st, res, why) ==
  [id |-> W.handlers[h].msg.id, status |-> st, results |-> res,
   of |-> h, cause |-> why, late |-> W.handlers[h].msg.late]

\* a handler that throws posts status 'error' from its catch block
Throw(W, h, why) ==
  [W EXCEPT !.toMain = Append(@, Reply(W, h, "error", << >>, why)),
            !.handlers[h].pc = "done"]

\* loadTransformers up to its await: the stored module when there is one, else
\* a new import; after names where the caller continues
loadTransformers(W, h, after) ==
  IF W.transformers
  THEN [W EXCEPT !.handlers[h].pc = after]
  ELSE [W EXCEPT !.handlers[h].pc = "import", !.handlers[h].ret = after,
                 !.loads.imports = @ + 1]

\* VisionPipeline.getInstance after its loadTransformers: the first caller
\* starts the two loads, every caller awaits them
startModel(W, h) ==
  IF W.modelPromise = "null"
  THEN [W EXCEPT !.modelPromise = "pending", !.loads.models = @ + 1,
                 !.handlers[h].pc = "awaitModel"]
  ELSE [W EXCEPT !.handlers[h].pc = "awaitModel"]

\* VisionPipeline.getInstance up to its first await that blocks
getInstance(W, h) ==
  IF W.handlers[h].pc = "getInstance" /\ ~W.transformers
  THEN loadTransformers(W, h, "model")
  ELSE startModel(W, h)

\* a caller of getInstance continues once Promise.all has settled
awaitModel(W, h) ==
  IF W.modelPromise = "fulfilled"
  THEN [W EXCEPT !.handlers[h].pc =
          IF W.handlers[h].msg.type = "init" THEN "warmup" ELSE "infer"]
  ELSE Throw(W, h, "init")

\* loadEmbeddings: the first caller starts the fetch, every caller awaits it
loadEmbeddings(W, h) ==
  IF W.embeddingsPromise = "null"
  THEN [W EXCEPT !.embeddingsPromise = "pending", !.loads.fetches = @ + 1,
                 !.handlers[h].pc = "awaitEmbeddings"]
  ELSE [W EXCEPT !.handlers[h].pc = "awaitEmbeddings"]

\* the 'analyze_batch' handler continues after loadEmbeddings(): embedBatch
\* starts with loadTransformers
awaitEmbeddings(W, h) ==
  IF W.embeddingsPromise = "fulfilled"
  THEN loadTransformers(W, h, "getInstance")
  ELSE Throw(W, h, "init")

Settled(p) == p \in {"fulfilled", "rejected"}

\* handler h has a continuation that can run now
Runnable(W, h) ==
  \/ W.handlers[h].pc \in {"getInstance", "model"}
  \/ W.handlers[h].pc = "awaitModel" /\ Settled(W.modelPromise)
  \/ W.handlers[h].pc = "awaitEmbeddings" /\ Settled(W.embeddingsPromise)

Continue(W, h) ==
  IF W.handlers[h].pc \in {"getInstance", "model"} THEN getInstance(W, h)
  ELSE IF W.handlers[h].pc = "awaitModel" THEN awaitModel(W, h)
  ELSE awaitEmbeddings(W, h)

\* the states in which the worker can come to rest: the continuations released
\* together run in the order in which they were queued, which this model leaves
\* open
RECURSIVE Drain(_)
Drain(W) ==
  IF \E h \in 0..NumCalls : Runnable(W, h)
  THEN UNION {Drain(Continue(W, h)) : h \in {g \in 0..NumCalls : Runnable(W, g)}}
  ELSE {W}

\* the worker's variables after an event that left it in W
Rest(W) ==
  \E R \in Drain(W) :
    /\ transformers' = R.transformers
    /\ modelPromise' = R.modelPromise
    /\ embeddingsPromise' = R.embeddingsPromise
    /\ handlers' = R.handlers
    /\ loads' = R.loads
    /\ toMain' = R.toMain

Received(W, h, m) == [W EXCEPT !.handlers[h] = [IdleHandler EXCEPT !.msg = m]]

\* self.onmessage, type 'init'
onInit ==
  /\ toWorker # << >>
  /\ Head(toWorker).type = "init"
  /\ toWorker' = Tail(toWorker)
  /\ Rest(loadTransformers(Received(WorkerState, 0, Head(toWorker)), 0, "getInstance"))
  /\ UNCHANGED <<ITEMS, toolVars, calls, workerPendingPromises, readyState, session, matchVars>>

\* self.onmessage, type 'analyze_batch'
onAnalyzeBatch ==
  /\ toWorker # << >>
  /\ Head(toWorker).type = "analyze_batch"
  /\ toWorker' = Tail(toWorker)
  /\ LET h == Head(toWorker).from
     IN  Rest(loadEmbeddings(Received(WorkerState, h, Head(toWorker)), h))
  /\ UNCHANGED <<ITEMS, toolVars, calls, workerPendingPromises, readyState, session, matchVars>>

\* the dynamic import of one caller settles: the module is stored, or the
\* caller throws
importSettles(h) ==
  /\ handlers[h].pc = "import"
  /\ \/ Rest([WorkerState EXCEPT !.transformers = TRUE,
                                 !.handlers[h].pc = handlers[h].ret])
     \/ Rest(Throw([WorkerState EXCEPT !.loads.failed = TRUE], h, "init"))
  /\ UNCHANGED <<ITEMS, toolVars, calls, workerPendingPromises, readyState, toWorker,
                 session, matchVars>>

\* from_pretrained of the model and of the processor settle
modelSettles ==
  /\ modelPromise = "pending"
  /\ \/ Rest([WorkerState EXCEPT !.modelPromise = "fulfilled"])
     \/ Rest([WorkerState EXCEPT !.modelPromise = "rejected", !.loads.failed = TRUE])
  /\ UNCHANGED <<ITEMS, toolVars, calls, workerPendingPromises, readyState, toWorker,
                 session, matchVars>>

\* the fetch of embeddings.json settles
embeddingsSettle ==
  /\ embeddingsPromise = "pending"
  /\ \/ Rest([WorkerState EXCEPT !.embeddingsPromise = "fulfilled"])
     \/ Rest([WorkerState EXCEPT !.embeddingsPromise = "rejected", !.loads.failed = TRUE])
  /\ UNCHANGED <<ITEMS, toolVars, calls, workerPendingPromises, readyState, toWorker,
                 session, matchVars>>

\* the 'init' handler after the loads: the warm-up may fail without effect,
\* then status 'ready' is posted
warmUp ==
  /\ handlers[0].pc = "warmup"
  /\ Rest([WorkerState EXCEPT !.toMain = Append(@, Reply(WorkerState, 0, "ready", << >>, "none")),
                              !.handlers[0].pc = "done"])
  /\ UNCHANGED <<ITEMS, toolVars, calls, workerPendingPromises, readyState, toWorker,
                 session, matchVars>>

\* what the rest of embedBatch and the ranking answer for a request: one
\* unreadable image rejects Promise.all and with it the batch; what the
\* processor does with no image at all is not fixed by this code
batchOutcomes(images, candidatesList) ==
  IF readFails(images) THEN {Answer("error", << >>)}
  ELSE IF Len(images) = 0 THEN {Answer("error", << >>), Answer("success", << >>)}
  ELSE {Answer("success", rankBatch(images, candidatesList))}

\* the 'analyze_batch' handler from RawImage.read to its postMessage
infer(h) ==
  /\ handlers[h].pc = "infer"
  /\ \E a \in batchOutcomes(handlers[h].msg.images, handlers[h].msg.candidatesList) :
       Rest([WorkerState EXCEPT
               !.toMain = Append(@, Reply(WorkerState, h, a.status, a.results,
                                          IF a.status = "error" THEN "decode" ELSE "none")),
               !.handlers[h].pc = "done"])
  /\ UNCHANGED <<ITEMS, toolVars, calls, workerPendingPromises, readyState, toWorker,
                 session, matchVars>>

\* a session of NumCalls analyzeBatch calls of one crop each, the calls
\* overlapping or not
Init ==
  /\ ITEMS = CatalogShipped /\ MainInit /\ MatchParked /\ ToolParked
  /\ session = [calls |-> NumCalls, batch |-> 1]

Next ==
  \/ \E c \in Calls : analyzeBatch(c)
  \/ onWorkerMessage
  \/ onInit
  \/ onAnalyzeBatch
  \/ \E h \in 0..NumCalls : importSettles(h)
  \/ modelSettles
  \/ embeddingsSettle
  \/ warmUp
  \/ \E h \in Calls : infer(h)

Spec == Init /\ [][Next]_vars

\* a session of a single analyzeBatch call of up to MaxBatch crops
InitSolo ==
  /\ ITEMS = CatalogShipped /\ MainInit /\ MatchParked /\ ToolParked
  /\ session = [calls |-> 1, batch |-> MaxBatch]

SpecSolo == InitSolo /\ [][Next]_vars


\* ------------------------------------------------------------- one slot
\* One slot taken through analyzeBatch and the quantity parsing of
\* runAnalysisLoop, for every hint and catalog of the bounded sets; the worker
\* is taken as an answer of any kind it can give.
HintAlphabet == {"a", "b", "A", " "}

BandageX5 == <<"B", "a", "n", "d", "a", "g", "e", " ", "x", "5">>

\* hints read against the shipped names
ShippedHints ==
  {BandageX5,
   <<"B", "A", "N", "D", "A", "G", "E">>,
   <<"B", "a", "n", "d", "a", "q", "e">>,
   <<"W", "i", "x", "x">>,
   <<"L", "e", "m", "x", "x">>,
   <<"L", "e", "m", "o", "n", " ", "1", "2">>}

MatchHints == UNION {[1..n -> HintAlphabet] : n \in 0..MaxHintLen} \cup ShippedHints

\* the text rules never read the crop: one readable crop and the two kinds of
\* failing blob
SlotBlobs == {1, MalformedBlob, UnreadableBlob}

MatchInit ==
  /\ slot \in [hintText : MatchHints, imageBlob : SlotBlobs]
  /\ mpc = "start"
  /\ mPrep = EmptyPrep
  /\ mResults = << >>
  /\ mQty = 0

\* analyzeBatch(<<slot>>) up to its return or its postMessage
slotPrepare ==
  /\ mpc = "start"
  /\ mPrep' = PrepareBatch(<<slot>>)
  /\ IF Len(mPrep'.pendingIndices) = 0
     THEN mpc' = "returned" /\ mResults' = mPrep'.results
     ELSE mpc' = "posted" /\ UNCHANGED mResults
  /\ UNCHANGED <<ITEMS, toolVars, slot, mQty, mainVars>>

\* the worker's answer reaches the resolver and is merged
slotAnswer ==
  /\ mpc = "posted"
  /\ \E a \in batchOutcomes(mPrep.pendingImages, mPrep.pendingCandidatesList)
              \cup {Answer("error", << >>)} :
       mResults' = Merge(mPrep.results, mPrep.pendingIndices, a)
  /\ mpc' = "returned"
  /\ UNCHANGED <<ITEMS, toolVars, slot, mPrep, mQty, mainVars>>

\* chunkResults.forEach of runAnalysisLoop: a null entry is skipped (0 here)
slotQuantity ==
  /\ mpc = "returned"
  /\ mQty' = IF mResults[1].null THEN 0 ELSE parseQty(slot.hintText)
  /\ mpc' = "done"
  /\ UNCHANGED <<ITEMS, toolVars, slot, mPrep, mResults, mainVars>>

InitMatch ==
  /\ ITEMS \in Catalogs /\ MainInit /\ MatchInit /\ ToolParked
  /\ session = [calls |-> 0, batch |-> 0]

NextMatch == slotPrepare \/ slotAnswer \/ slotQuantity

SpecMatch == InitMatch /\ [][NextMatch]_vars


\* ------------------------------------------------------------- ranking
\* The worker alone, its encoder loaded, answering one request of one crop
\* whose shortlist is any list of up to MaxCands names.
RankNames == {Bandage, HerbalBandage, Wire, Lemon}

CandLists == UNION {[1..n -> RankNames] : n \in 0..MaxCands}

RankRequests ==
  {[type |-> "analyze_batch", id |-> 1, images |-> <<img>>, candidatesList |-> <<cl>>,
    from |-> 1, late |-> FALSE] : img \in 1..NumImages, cl \in CandLists}

InitRank ==
  /\ ITEMS = CatalogShipped /\ MatchParked /\ ToolParked
  /\ calls = [c \in Calls |-> IdleCall]
  /\ workerPendingPromises = [i \in Ids |-> 0]
  /\ readyState = "ready"
  /\ toWorker \in {<<m>> : m \in RankRequests}
  /\ toMain = << >>
  /\ transformers = TRUE
  /\ modelPromise = "fulfilled"
  /\ embeddingsPromise = "null"
  /\ handlers = [h \in 0..NumCalls |->
                  IF h = 0 THEN [IdleHandler EXCEPT !.pc = "done", !.msg = InitMessage]
                  ELSE IdleHandler]
  /\ loads = [imports |-> 1, models |-> 1, fetches |-> 0, failed |-> FALSE]
  /\ session = [calls |-> 0, batch |-> 0]

NextRank ==
  \/ onAnalyzeBatch
  \/ embeddingsSettle
  \/ \E h \in Calls : infer(h)
  \/ onWorkerMessage

SpecRank == InitRank /\ [][NextRank]_vars


\* ------------------------------------------------------------- quantities
\* One slot whose hint is made of the characters the quantity patterns look at.
QtyAlphabet == {"x", "X", " ", "2", "3", "a"}

QtyHints == UNION {[1..n -> QtyAlphabet] : n \in 0..MaxHintLen}

InitQty ==
  /\ ITEMS = CatalogShipped /\ MainInit /\ ToolParked
  /\ slot \in [hintText : QtyHints, imageBlob : {1}]
  /\ mpc = "start"
  /\ mPrep = EmptyPrep
  /\ mResults = << >>
  /\ mQty = 0
  /\ session = [calls |-> 0, batch |-> 0]

SpecQty == InitQty /\ [][NextMatch]_vars


\* ------------------------------------------------------------- slot detection
\* Slot detection from the bounding boxes that component labelling found and
\* the size filters let through; the pixels are not modelled.  The boxes are
\* a grid of equal cells with some cells missing, or a short list of
\* rectangles that overlap, contain or lie near one another.
GridCell(r, c) == Rect(5 + 25 * (c - 1), 5 + 25 * (r - 1), 20, 20)

Cells(R, C) == (1..R) \X (1..C)

\* the cells of an R x C grid that are not in removed, row by row
RECURSIVE GridList(_, _, _, _, _, _)
GridList(R, C, removed, r, c, acc) ==
  IF r > R THEN acc
  ELSE IF c > C THEN GridList(R, C, removed, r + 1, 1, acc)
       ELSE GridList(R, C, removed, r, c + 1,
                     IF <<r, c>> \in removed THEN acc ELSE Append(acc, GridCell(r, c)))

\* grids from which at most 30% of the cells are missing
GridInputs ==
  UNION {{[grid |-> [rows |-> R, cols |-> C], blobs |-> GridList(R, C, removed, 1, 1, << >>)] :
            removed \in {S \in SUBSET Cells(R, C) : 10 * Cardinality(S) <= 3 * R * C}} :
         R \in 1..MaxRows, C \in 1..MaxCols}

FreePool ==
  {Rect(45, 5, 20, 20), Rect(25, 15, 20, 20), Rect(5, 20, 20, 20),
   Rect(100, 100, 40, 40), Rect(105, 105, 20, 20), Rect(110, 100, 40, 40)}

FreeInputs ==
  {[grid |-> NoGrid, blobs |-> l] : l \in UNION {[1..n -> FreePool] : n \in 0..MaxRects}}

SegInputs == GridInputs \cup FreeInputs

InitSlots ==
  /\ ITEMS = CatalogShipped /\ MainInit /\ MatchParked
  /\ session = [calls |-> 0, batch |-> 0]
  /\ detectedBlobs = << >> /\ lastEdit = NoEdit /\ RestParked
  /\ \E in \in SegInputs :
       seg = [ParkedSeg EXCEPT !.pc = "blobs", !.grid = in.grid, !.blobs = in.blobs]

ImageSize == Image.width * Image.height

\* blobDetector.ts: area within 0.2% and 50% of the image, aspect within 0.5 and 3
isCandidate(r) ==
  /\ 1000 * Area(r) >= 2 * ImageSize /\ 2 * Area(r) <= ImageSize
  /\ 2 * r.width >= r.height /\ r.width <= 3 * r.height

\* part_016: area within 0.1% and 40%, aspect within 0.4 and 3.5, not within
\* 2 px of the border
isCandidate016(r) ==
  /\ 1000 * Area(r) >= ImageSize /\ 10 * Area(r) <= 4 * ImageSize
  /\ 10 * r.width >= 4 * r.height /\ 10 * r.width <= 35 * r.height
  /\ ~ \/ r.x <= Px(2) \/ r.y <= Px(2)
       \/ r.x + r.width >= Image.width - Px(2)
       \/ r.y + r.height >= Image.height - Px(2)

\* part_019: area within 0.1% and 40%
isCandidate019(r) == 1000 * Area(r) >= ImageSize /\ 10 * Area(r) <= 4 * ImageSize

\* part_018: groups of 5 px tiles, at least 20 px wide and high
TILE_SIZE == 5

isRawRect(r) ==
  /\ r.width >= Px(20) /\ r.height >= Px(20)
  /\ \A v \in {r.x, r.y, r.width, r.height} : v % Px(TILE_SIZE) = 0

All(s, P(_)) == \A k \in 1..Len(s) : P(s[k])

SegRest == UNCHANGED <<ITEMS, mainVars, matchVars, detectedBlobs, lastEdit, pix, app>>

\* blobDetector.ts: NMS, grid inference, NMS, sort
detectInventorySlots ==
  /\ seg.pc = "blobs" /\ All(seg.blobs, isCandidate)
  /\ LET uniqueSlots == performNMS(seg.blobs, 6)
         refinedSlots == fillMissingGridSlots(uniqueSlots)
         finalSlots == performNMS(refinedSlots, 5)
     IN  \E sorted \in sortRowMajor(finalSlots) :
           seg' = [seg EXCEPT !.pc = "done", !.by = "detectInventorySlots",
                              !.unique = uniqueSlots, !.refined = refinedSlots,
                              !.kept = finalSlots, !.out = sorted]
  /\ SegRest

\* part_016: overlap filter, sort
detectInventorySlots016 ==
  /\ seg.pc = "blobs" /\ All(seg.blobs, isCandidate016)
  /\ LET finalSlots == overlapFilter(seg.blobs)
     IN  \E sorted \in sortRowMajor(finalSlots) :
           seg' = [seg EXCEPT !.pc = "done", !.by = "detectInventorySlots016",
                              !.kept = finalSlots, !.out = sorted]
  /\ SegRest

\* part_019: merge of near rectangles, shape filter, sort
detectInventorySlots019 ==
  /\ seg.pc = "blobs" /\ All(seg.blobs, isCandidate019)
  /\ LET candidateSlots == mergeNear(seg.blobs)
         validSlots == SelectSeq(candidateSlots, validShape)
     IN  \E sorted \in sortRowMajor(validSlots) :
           seg' = [seg EXCEPT !.pc = "done", !.by = "detectInventorySlots019",
                              !.merged = candidateSlots, !.kept = validSlots,
                              !.out = sorted]
  /\ SegRest

\* part_018: merge of touching rectangles
findItemBlobs ==
  /\ seg.pc = "blobs" /\ All(seg.blobs, isRawRect)
  /\ LET rawRects == mergeTouching(seg.blobs)
     IN  seg' = [seg EXCEPT !.pc = "done", !.by = "findItemBlobs",
                            !.merged = rawRects, !.out = rawRects]
  /\ SegRest

NextSlots ==
  \/ detectInventorySlots
  \/ detectInventorySlots016
  \/ detectInventorySlots019
  \/ findItemBlobs

SpecSlots == InitSlots /\ [][NextSlots]_vars

\* ------------------------------------------------------------- merge loops
\* The two merge loops pass by pass: seg.merged is the list the loop works
\* on, seg.pc is "merge" while the loop's flag is set.
InitMerge ==
  /\ ITEMS = CatalogShipped /\ MainInit /\ MatchParked
  /\ session = [calls |-> 0, batch |-> 0]
  /\ detectedBlobs = << >> /\ lastEdit = NoEdit /\ RestParked
  /\ \E in \in FreeInputs, by \in {"findItemBlobs", "detectInventorySlots019"} :
       seg = [ParkedSeg EXCEPT !.pc = "merge", !.by = by,
                               !.blobs = in.blobs, !.merged = in.blobs]

\* part_018: changed = true is reached in the pass over rawRects[i..]
RECURSIVE ChangedFrom(_, _, _)
ChangedFrom(rawRects, i, used) ==
  IF i > Len(rawRects) THEN FALSE
  ELSE IF i \in used THEN ChangedFrom(rawRects, i + 1, used)
       ELSE LET a == Absorb(rawRects, i + 1, rawRects[i], used \cup {i})
            IN  a.used # used \cup {i} \/ ChangedFrom(rawRects, i + 1, a.used)

\* a flag that every pass sets
changedAlways(rawRects) == TRUE

\* part_018: the flag changed at the end of a pass over rawRects
changed(rawRects) == ChangedFrom(rawRects, 1, {})

\* part_018: one pass of while (changed)
mergePass018 ==
  /\ seg.pc = "merge" /\ seg.by = "findItemBlobs"
  /\ seg' = [seg EXCEPT !.merged = MergePass(seg.merged, 1, {}, << >>),
                         !.out = MergePass(seg.merged, 1, {}, << >>),
                         !.pc = IF changed(seg.merged) THEN "merge" ELSE "done"]
  /\ SegRest

\* part_019: one pass of while (merged): the first near pair is replaced by
\* its union and both loops are left, or no pair is found
mergePass019 ==
  /\ seg.pc = "merge" /\ seg.by = "detectInventorySlots019"
  /\ LET candidateSlots == seg.merged
         near == NearPairs(candidateSlots)
     IN  IF near = {}
         THEN seg' = [seg EXCEPT !.pc = "done"]
         ELSE LET p == FirstPair(near)
                  joined == [candidateSlots EXCEPT
                               ![p[1]] = Union(candidateSlots[p[1]], candidateSlots[p[2]])]
              IN  seg' = [seg EXCEPT !.merged = SubSeq(joined, 1, p[2] - 1)
                                                \o SubSeq(joined, p[2] + 1, Len(joined))]
  /\ SegRest

NextMerge == mergePass018 \/ mergePass019

\* a loop that can run its next pass does run it
SpecMerge == InitMerge /\ [][NextMerge]_vars /\ WF_vars(NextMerge)


\* ------------------------------------------------------------- component labelling
\* Steps 4 and 5 of detectInventorySlots (blobDetector.ts, the same in
\* part_016) over every binary image of PixW x PixH pixels. Coordinates are
\* whole pixels from 0; the pixel at (x, y) has index y * PixW + x.
PixSize == PixW * PixH

Pixels == 0..(PixSize - 1)

NoBlob == [set |-> FALSE, x |-> 0, y |-> 0, width |-> 0, height |-> 0]

InitPixels ==
  /\ ITEMS = CatalogShipped /\ MainInit /\ MatchParked
  /\ session = [calls |-> 0, batch |-> 0]
  /\ seg = ParkedSeg /\ detectedBlobs = << >> /\ lastEdit = NoEdit /\ app = ParkedApp
  /\ \E closed \in [Pixels -> {0, 1}] :
       pix = [pc |-> "closed", closed |-> closed,
              labels |-> [i \in Pixels |-> 0],
              parent |-> [l \in 1..PixSize |-> l],
              blobs |-> [l \in 1..PixSize |-> NoBlob]]

\* the root of x; the path compression of the code moves no root
RECURSIVE find(_, _)
find(parent, x) == IF parent[x] = x THEN x ELSE find(parent, parent[x])

unite(parent, a, b) ==
  LET ra == find(parent, a)
      rb == find(parent, b)
  IN  IF ra # rb THEN [parent EXCEPT ![rb] = ra] ELSE parent

\* the first pass from pixel idx on; st holds labels, parent and nextLabel
RECURSIVE LabelFrom(_, _, _)
LabelFrom(closed, idx, st) ==
  IF idx >= PixSize THEN st
  ELSE IF closed[idx] = 0 THEN LabelFrom(closed, idx + 1, st)
  ELSE LET x == idx % PixW
           y == idx \div PixW
           left == IF x > 0 THEN st.labels[idx - 1] ELSE 0
           top == IF y > 0 THEN st.labels[idx - PixW] ELSE 0
       IN  IF left = 0 /\ top = 0
           THEN LabelFrom(closed, idx + 1,
                  [st EXCEPT !.labels[idx] = st.nextLabel, !.nextLabel = @ + 1])
           ELSE IF left # 0 /\ top = 0
           THEN LabelFrom(closed, idx + 1, [st EXCEPT !.labels[idx] = left])
           ELSE IF left = 0 /\ top # 0
           THEN LabelFrom(closed, idx + 1, [st EXCEPT !.labels[idx] = top])
           ELSE LabelFrom(closed, idx + 1,
                  [st EXCEPT !.labels[idx] = Min2(left, top),
                             !.parent = unite(st.parent, left, top)])

\* step 4: connected component labelling
labelComponents ==
  /\ pix.pc = "closed"
  /\ LET st == LabelFrom(pix.closed, 0,
                         [labels |-> pix.labels, parent |-> pix.parent, nextLabel |-> 1])
     IN  pix' = [pix EXCEPT !.pc = "labelled", !.labels = st.labels, !.parent = st.parent]
  /\ UNCHANGED <<ITEMS, mainVars, matchVars, seg, detectedBlobs, lastEdit, app>>

\* step 5 from pixel idx on: width and height of a blob hold its largest x and y
RECURSIVE ExtractFrom(_, _, _, _)
ExtractFrom(labels, parent, idx, blobs) ==
  IF idx >= PixSize THEN blobs
  ELSE IF labels[idx] = 0 THEN ExtractFrom(labels, parent, idx + 1, blobs)
  ELSE LET x == idx % PixW
           y == idx \div PixW
           root == find(parent, labels[idx])
           blob == blobs[root]
       IN  IF ~blob.set
           THEN ExtractFrom(labels, parent, idx + 1,
                  [blobs EXCEPT ![root] = [set |-> TRUE, x |-> x, y |-> y,
                                           width |-> 1, height |-> 1]])
           ELSE ExtractFrom(labels, parent, idx + 1,
                  [blobs EXCEPT ![root] = [set |-> TRUE,
                                           x |-> Min2(blob.x, x),
                                           width |-> Max2(blob.width, x),
                                           y |-> Min2(blob.y, y),
                                           height |-> Max2(blob.height, y)]])

\* step 5: the extents of every root
extractBlobs ==
  /\ pix.pc = "labelled"
  /\ pix' = [pix EXCEPT !.pc = "blobs",
                        !.blobs = ExtractFrom(pix.labels, pix.parent, 0, pix.blobs)]
  /\ UNCHANGED <<ITEMS, mainVars, matchVars, seg, detectedBlobs, lastEdit, app>>

\* the rectangle the filters of step 6 compute from a blob
realRect(b) ==
  [x |-> b.x, y |-> b.y, width |-> b.width - b.x + 1, height |-> b.height - b.y + 1]

NextPixels == labelComponents \/ extractBlobs

SpecPixels == InitPixels /\ [][NextPixels]_vars

\* ------------------------------------------------------------- App
\* App after an image was selected and its OCR has finished: the encoder has
\* loaded, readyState and modelStatus are 'ready', the effect has run with
\* these values, nothing is displayed. The prepared items of a run
\* are named by their position 1..m; analyzeBatch is taken as a call that
\* settles later with one of its outcomes.
Runs == 1..NumRuns

IdleRun == [pc |-> "idle", blobs |-> 0, preparedItems |-> 0, i |-> 0, rawItems |-> << >>,
            processedCount |-> 0, chunks |-> << >>, failed |-> 0]

InitApp ==
  /\ ITEMS = CatalogShipped /\ MatchParked
  /\ calls = [c \in Calls |-> IdleCall]
  /\ workerPendingPromises = [i \in Ids |-> 0]
  /\ readyState = "ready"
  /\ toWorker = << >>
  /\ toMain = << >>
  /\ transformers = TRUE
  /\ modelPromise = "fulfilled"
  /\ embeddingsPromise = "null"
  /\ handlers = [h \in 0..NumCalls |->
                  IF h = 0 THEN [IdleHandler EXCEPT !.pc = "done", !.msg = InitMessage]
                  ELSE IdleHandler]
  /\ loads = [imports |-> 1, models |-> 1, fetches |-> 0, failed |-> FALSE]
  /\ session = [calls |-> 0, batch |-> 0]
  /\ seg = ParkedSeg /\ detectedBlobs = << >> /\ lastEdit = NoEdit /\ pix = ParkedPix
  /\ app = [pc |-> "on", modelStatus |-> "ready", progress |-> 0,
            results |-> [by |-> 0, at |-> 0, items |-> << >>],
            seen |-> <<"ready", "ready">>,
            runs |-> [r \in Runs |-> IdleRun], inflight |-> {}]

RECURSIVE SlotsFrom(_, _)
SlotsFrom(runs, r) == IF r > NumRuns THEN 0 ELSE runs[r].blobs + SlotsFrom(runs, r + 1)

AppRest == UNCHANGED <<ITEMS, calls, workerPendingPromises, toWorker, toMain, transformers,
                       modelPromise, embeddingsPromise, handlers, loads, session,
                       matchVars, seg, detectedBlobs, lastEdit, pix>>

\* the effect 'Sync vision readiness'; React runs it again after a render in
\* which readyState or modelStatus differs from the values it last ran with
syncVisionReadiness ==
  /\ app.pc = "on" /\ app.seen # <<readyState, app.modelStatus>>
  /\ app' = [app EXCEPT
       !.seen = <<readyState, app.modelStatus>>,
       !.modelStatus = IF readyState = "ready" THEN "ready"
                       ELSE IF readyState = "loading" /\ app.modelStatus = "idle"
                       THEN "loading_model"
                       ELSE IF readyState = "error" THEN "error"
                       ELSE @]
  /\ UNCHANGED readyState
  /\ AppRest

BATCH_SIZE == 4

\* a slice that is one item too long
sliceLong(m, i) == [k \in 1..(Min2(i + BATCH_SIZE + 1, m) - i) |-> i + k]

\* preparedItems.slice(i, i + BATCH_SIZE) of m prepared items
slice(m, i) == [k \in 1..(Min2(i + BATCH_SIZE, m) - i) |-> i + k]

\* a loop that ends without setModelStatus('ready')
LoopAtSilent(a, r, run) ==
  IF run.i < run.preparedItems
  THEN [a EXCEPT !.runs[r] = [run EXCEPT !.pc = "await",
                                         !.chunks = Append(@, slice(run.preparedItems, run.i))],
                 !.inflight = @ \cup {[run |-> r, chunk |-> slice(run.preparedItems, run.i)]}]
  ELSE [a EXCEPT !.runs[r] = [run EXCEPT !.pc = "done"]]

\* the for loop at offset i: the next chunk is handed to analyzeBatch, or the
\* loop is over and the run ends with setModelStatus('ready')
LoopAt(a, r, run) ==
  IF run.i < run.preparedItems
  THEN [a EXCEPT !.runs[r] = [run EXCEPT !.pc = "await",
                                         !.chunks = Append(@, slice(run.preparedItems, run.i))],
                 !.inflight = @ \cup {[run |-> r, chunk |-> slice(run.preparedItems, run.i)]}]
  ELSE [a EXCEPT !.runs[r] = [run EXCEPT !.pc = "done"],
                 !.modelStatus = "ready"]

\* handleAnalyzeClick -> handleReanalyze -> runAnalysisLoop up to its first
\* await. The button is rendered while modelStatus is not 'analyzing'. Runs
\* are numbered in the order they are started.
handleAnalyzeClick(r, blobs) ==
  /\ app.pc = "on"
  /\ app.modelStatus # "analyzing"
  /\ app.runs[r].pc = "idle"
  /\ \A q \in Runs : q < r => app.runs[q].pc # "idle"
  /\ blobs + SlotsFrom(app.runs, 1) <= MaxSlots
  /\ app' = IF blobs = 0
            THEN [app EXCEPT !.runs[r].pc = "done", !.modelStatus = "ready"]
            ELSE [app EXCEPT !.runs[r] = [@ EXCEPT !.pc = "prepare", !.blobs = blobs],
                             !.modelStatus = "analyzing"]
  /\ UNCHANGED readyState
  /\ AppRest

\* Promise.all(preparePromises) resolves; a canvas whose toBlob yields null
\* drops out of preparedItems; the loop starts
prepared(r, m) ==
  /\ app.pc = "on" /\ app.runs[r].pc = "prepare"
  /\ m <= app.runs[r].blobs
  /\ app' = LoopAt(app, r, [app.runs[r] EXCEPT !.preparedItems = m])
  /\ UNCHANGED readyState
  /\ AppRest

Outcomes == {"success", "error", "rejected"}

\* the call of the chunk in flight settles and the loop body runs to its next
\* await: 'success' resolves with a result for every item, 'error' is the
\* worker's error reply (handleReady sets readyState, the call resolves with
\* nulls), 'rejected' is a throw inside analyzeBatch
chunkSettles(r, outcome) ==
  /\ app.pc = "on" /\ app.runs[r].pc = "await"
  /\ LET run == app.runs[r]
         chunk == run.chunks[Len(run.chunks)]
         after == [run EXCEPT
                     !.rawItems = IF outcome = "success" THEN @ \o chunk ELSE @,
                     !.failed = IF outcome = "rejected" THEN @ + 1 ELSE @,
                     !.processedCount = @ + Len(chunk),
                     !.i = @ + BATCH_SIZE]
         shown == [app EXCEPT
                     !.inflight = @ \ {[run |-> r, chunk |-> chunk]},
                     !.progress = (100 * after.processedCount) \div run.preparedItems,
                     !.results = [by |-> r, at |-> after.processedCount,
                                  items |-> after.rawItems]]
     IN  app' = LoopAt(shown, r, after)
  /\ readyState' = IF outcome = "error" THEN "error" ELSE readyState
  /\ AppRest

NextApp ==
  \/ syncVisionReadiness
  \/ \E r \in Runs, blobs \in 0..MaxSlots : handleAnalyzeClick(r, blobs)
  \/ \E r \in Runs, m \in 0..MaxSlots : prepared(r, m)
  \/ \E r \in Runs, outcome \in Outcomes : chunkSettles(r, outcome)

SpecApp == InitApp /\ [][NextApp]_vars

\* ------------------------------------------------------------- slot editor
\* InventoryImageInput's list of rectangles under the user's edits.  A drag is
\* taken at its end, with the rectangle it spanned; a right click at the
\* image point it hit.
DragBoxes ==
  {Rect(10, 10, 40, 40), Rect(30, 30, 40, 40), Rect(100, 100, 20, 20), Rect(10, 10, 8, 30)}

Point(x, y) == [x |-> Px(x), y |-> Px(y)]

ClickPoints == {Point(15, 15), Point(35, 35), Point(110, 110), Point(200, 200)}

FullImage == [x |-> 0, y |-> 0, width |-> Image.width, height |-> Image.height]

\* the test of handleContextMenu: the point is in the box or on its border
Contains(box, coords) ==
  /\ coords.x >= box.x /\ coords.x <= box.x + box.width
  /\ coords.y >= box.y /\ coords.y <= box.y + box.height

\* detectedBlobs.findIndex(...): the first index that passes, 0 for none
findIndex(boxes, coords) ==
  IF \E k \in 1..Len(boxes) : Contains(boxes[k], coords)
  THEN CHOOSE k \in 1..Len(boxes) :
         Contains(boxes[k], coords) /\ \A m \in 1..(k - 1) : ~Contains(boxes[m], coords)
  ELSE 0

\* prev.filter((_, idx) => idx !== clickedIndex)
RemoveAt(boxes, k) == SubSeq(boxes, 1, k - 1) \o SubSeq(boxes, k + 1, Len(boxes))

EditRest == UNCHANGED <<ITEMS, mainVars, matchVars, seg, pix, app>>

InitEdit ==
  /\ ITEMS = CatalogShipped /\ MainInit /\ MatchParked /\ ToolParked
  /\ session = [calls |-> 0, batch |-> 0]

\* the end of a drag over currentDragBox: boxes of 10 px or less are dropped
handleMouseUp(currentDragBox) ==
  /\ Len(detectedBlobs) < MaxBoxes
  /\ detectedBlobs' = IF currentDragBox.width > Px(10) /\ currentDragBox.height > Px(10)
                      THEN Append(detectedBlobs, currentDragBox)
                      ELSE detectedBlobs
  /\ lastEdit' = [op |-> "add", at |-> [x |-> currentDragBox.x, y |-> currentDragBox.y],
                  before |-> detectedBlobs]
  /\ EditRest

\* a right click at coords
handleContextMenu(coords) ==
  /\ LET clickedIndex == findIndex(detectedBlobs, coords)
     IN  detectedBlobs' = IF clickedIndex # 0 THEN RemoveAt(detectedBlobs, clickedIndex)
                          ELSE detectedBlobs
  /\ lastEdit' = [op |-> "remove", at |-> coords, before |-> detectedBlobs]
  /\ EditRest

handleFullImageSelect ==
  /\ detectedBlobs' = <<FullImage>>
  /\ lastEdit' = [op |-> "full", at |-> [x |-> 0, y |-> 0], before |-> detectedBlobs]
  /\ EditRest

\* slotW = medianW * 1.35 and slotH = medianH * 1.35
slotSize(median) == (27 * median) \div 20

\* an expansion that keeps every rectangle's own size
expandedKeepingSize(b, slotW, slotH) == b

\* one rectangle of expandToSlotCells: the cell around its centre, its left
\* and top edge kept at 0 or more, its width and height cut to the image
expanded(b, slotW, slotH) ==
  LET cx == b.x + b.width \div 2
      cy == b.y + b.height \div 2
      x == Max2(0, cx - slotW \div 2)
      y == Max2(0, cy - slotH \div 2)
  IN  [x |-> x, y |-> y,
       width |-> Min2(slotW, Image.width - x),
       height |-> Min2(slotH, Image.height - y)]

RECURSIVE ExpandFrom(_, _, _, _, _)
ExpandFrom(boxes, slotW, slotH, k, acc) ==
  IF k > Len(boxes) THEN acc
  ELSE ExpandFrom(boxes, slotW, slotH, k + 1, Append(acc, expanded(boxes[k], slotW, slotH)))

\* the medians and halves of expandToSlotCells are whole numbers of quarters
\* of a pixel
ExpandsExactly(boxes) ==
  /\ (27 * getMedian(MapRects(boxes, "width", 1, << >>))) % 40 = 0
  /\ (27 * getMedian(MapRects(boxes, "height", 1, << >>))) % 40 = 0
  /\ \A k \in 1..Len(boxes) : boxes[k].width % 2 = 0 /\ boxes[k].height % 2 = 0

\* part_012: every rectangle becomes a cell of 1.35 times the median size;
\* nothing happens on an empty list. The analysis that onReanalyze starts with
\* the new list is App's, modelled by handleAnalyzeClick.
expandToSlotCells ==
  /\ ExpandsExactly(detectedBlobs)
  /\ detectedBlobs' =
       IF Len(detectedBlobs) = 0 THEN detectedBlobs
       ELSE ExpandFrom(detectedBlobs,
                       slotSize(getMedian(MapRects(detectedBlobs, "width", 1, << >>))),
                       slotSize(getMedian(MapRects(detectedBlobs, "height", 1, << >>))),
                       1, << >>)
  /\ lastEdit' = [op |-> "expand", at |-> [x |-> 0, y |-> 0], before |-> detectedBlobs]
  /\ EditRest

NextEdit ==
  \/ \E box \in DragBoxes : handleMouseUp(box)
  \/ \E coords \in ClickPoints : handleContextMenu(coords)
  \/ handleFullImageSelect
  \/ expandToSlotCells

SpecEdit == InitEdit /\ [][NextEdit]_vars


\* ------------------------------------------------------------- properties
Readable(blob) == blob \in 1..NumImages

\* the match the worker computes from an item's own crop and shortlist
OwnResult(item) ==
  LET top == rankCrop(ImageVec(item.imageBlob), Shortlist(item.hintText))[1]
  IN  Match(top.label, top.score)

OnFastPath(item) == ~FastPath(item.hintText).null

Done(c) == calls[c].pc = "done"

\* C1: a finished analyzeBatch call returns one entry per input item, and entry
\* k is null, the fast-path match of item k's hint, or the worker's result for
\* item k's own crop.
C1_EntriesBelongToTheirItems ==
  \A c \in Calls : Done(c) =>
    /\ Len(calls[c].results) = Len(calls[c].items)
    /\ \A k \in 1..Len(calls[c].items) :
         \/ calls[c].results[k].null
         \/ calls[c].results[k] = FastPath(calls[c].items[k].hintText)
         \/ /\ Readable(calls[c].items[k].imageBlob)
            /\ calls[c].results[k] = OwnResult(calls[c].items[k])

\* C2: when the encoder has loaded and one slow-path item of a batch cannot be
\* converted or decoded, every other slow-path item of that batch still gets
\* the result computed from its own crop.
C2_FailureStaysWithItsItem ==
  \A c \in Calls :
    ( /\ Done(c)
      /\ calls[c].status # "none"
      /\ calls[c].cause # "init"
      /\ calls[c].answeredBy = c
      /\ \E k \in 1..Len(calls[c].items) :
           ~OnFastPath(calls[c].items[k]) /\ ~Readable(calls[c].items[k].imageBlob) )
    => \A k \in 1..Len(calls[c].items) :
         ( ~OnFastPath(calls[c].items[k]) /\ Readable(calls[c].items[k].imageBlob) )
         => calls[c].results[k] = OwnResult(calls[c].items[k])

\* C3: the module import, the model load and the embeddings fetch are each
\* started at most once, and no second import is started while one is in flight.
C3_EachLoadStartedOnce ==
  /\ loads.imports <= 1
  /\ loads.models <= 1
  /\ loads.fetches <= 1
  /\ Cardinality({h \in 0..NumCalls : handlers[h].pc = "import"}) <= 1

\* C4: a request is resolved only by the response to itself, never by the
\* response to a different request.
C4_ResolvedByOwnResponse ==
  \A c \in Calls : Done(c) /\ calls[c].status # "none" => calls[c].answeredBy = c

\* C5: when the worker answers a batch with status 'error', the entries the
\* fast path resolved keep their label and score and only the slow-path
\* entries are null.
C5_FastPathSurvivesError ==
  \A c \in Calls : Done(c) /\ calls[c].status = "error" =>
    \A k \in 1..Len(calls[c].items) :
      IF OnFastPath(calls[c].items[k])
      THEN calls[c].results[k] = FastPath(calls[c].items[k].hintText)
      ELSE calls[c].results[k].null

\* an 'error' answer has reached a batch that holds a resolved and an
\* unresolved slot
C5_Witness ==
  \E c \in Calls :
    /\ Done(c) /\ calls[c].status = "error"
    /\ \E k \in 1..Len(calls[c].items) :
         /\ calls[c].items[k].hintText = HintBandage
         /\ calls[c].results[k] = Match(Bandage, ScoreExact)
    /\ \E k \in 1..Len(calls[c].items) :
         calls[c].items[k].hintText = << >> /\ calls[c].results[k].null

\* C6: a request posted after an initialisation step of the encoder has failed
\* is answered with status 'error'.
C6_ErrorForTheRestOfTheSession ==
  /\ \A k \in 1..Len(toMain) : toMain[k].late => toMain[k].status = "error"
  /\ \A h \in Calls : handlers[h].pc = "infer" => ~handlers[h].msg.late

\* the slot of the one-slot model, once analyzeBatch has looked at it
Prepared == mpc # "start"
CleanHint == trim(toLowerCase(slot.hintText))
ItemIndices == 1..Len(ITEMS)

\* C7: hint "Bandage x5" over a catalog that holds "Bandage" resolves to
\* {Bandage, 1.0} with quantity 5 and nothing is posted to the worker.
C7_BandageX5Resolved ==
  ( /\ mpc = "done"
    /\ slot.hintText = BandageX5
    /\ \E k \in ItemIndices : ITEMS[k].name = Bandage )
  => /\ mResults[1] = Match(Bandage, ScoreExact)
     /\ mQty = 5
     /\ Len(mPrep.pendingIndices) = 0

\* the edit distance from the hint to each item of the catalog, in its order
RECURSIVE DistsFrom(_, _)
DistsFrom(k, acc) ==
  IF k > Len(ITEMS) THEN acc
  ELSE DistsFrom(k + 1, Append(acc, distOf(ITEMS[k], CleanHint)))

Dists == DistsFrom(1, << >>)

MinOf(ds) == CHOOSE d \in {ds[k] : k \in 1..Len(ds)} : \A k \in 1..Len(ds) : d <= ds[k]

\* the first position of a sequence of distances that holds its minimum
FirstMinOf(ds) ==
  LET m == MinOf(ds)
  IN  CHOOSE k \in 1..Len(ds) : ds[k] = m /\ \A j \in 1..(k - 1) : ds[j] > m

\* the smallest edit distance from the hint to any name or alias
MinDist == MinOf(Dists)

\* the lower-cased name and aliases of item k
StringsOf(k) ==
  LET cs == candidatesOf(ITEMS[k])
  IN  {cs[n] : n \in 1..Len(cs)}

\* the lower-cased names and aliases, at the smallest distance, of the items
\* that carry a given canonical name
ClosestStrings(label) ==
  {c \in UNION {StringsOf(k) : k \in {i \in ItemIndices : ITEMS[i].name = label}} :
     levenshteinDistance(CleanHint, c) = MinDist}

\* C8: no edit-distance match (score 0.95) is returned when the string that
\* achieved the smallest distance has length 4 or less and the distance is 2.
C8_NoShortStringAtDistanceTwo ==
  ( /\ Prepared
    /\ ~mPrep.results[1].null
    /\ mPrep.results[1].score = ScoreClose )
  => ~( /\ MinDist = 2
        /\ \A c \in ClosestStrings(mPrep.results[1].label) : Len(c) <= 4 )

NoExactString ==
  LET h == CleanHint
  IN  \A k \in ItemIndices :
        LET cs == candidatesOf(ITEMS[k])
        IN  \A n \in 1..Len(cs) : cs[n] # h

\* the first item of the catalog at the smallest distance
Closest == FirstMinOf(Dists)

\* C9: a hint of length >= 3 that equals no name or alias, whose smallest
\* distance d is at most 2, the matched item's name being longer than 4
\* characters or d at most 1, resolves to the closest item with score 0.95
\* and is not sent to the worker.
C9_CloseHintResolved ==
  ( Prepared /\ Len(slot.hintText) >= 3 /\ NoExactString )
  => LET ds == Dists
         d == MinOf(ds)
         closest == FirstMinOf(ds)
     IN  ( d <= 2 /\ (Len(ITEMS[closest].name) > 4 \/ d <= 1) )
         => /\ mPrep.results[1] = Match(ITEMS[closest].name, ScoreClose)
            /\ Len(mPrep.pendingIndices) = 0

\* a hint at distance 2 from a name of five characters has been resolved
C9_Witness ==
  /\ Prepared
  /\ Len(slot.hintText) >= 3
  /\ NoExactString
  /\ LET ds == Dists
         closest == FirstMinOf(ds)
     IN  /\ MinOf(ds) = 2
         /\ Len(ITEMS[closest].name) > 4
         /\ mPrep.results[1] = Match(ITEMS[closest].name, ScoreClose)
  /\ Len(mPrep.pendingIndices) = 0

\* the items one of whose lower-cased strings is the normalized hint
ExactItems ==
  LET h == CleanHint
  IN  {k \in ItemIndices :
         LET cs == candidatesOf(ITEMS[k])
         IN  \E n \in 1..Len(cs) : cs[n] = h}

\* the first of them in the order of the catalog
FirstExact == CHOOSE k \in ExactItems : \A m \in ExactItems : k <= m

\* C10: a hint of length >= 3 whose lower-cased, trimmed form equals the
\* lower-cased name or a lower-cased alias of an item resolves to the canonical
\* name of that item (the first in the catalog when several answer to it)
\* with score 1.0 and is not sent to the worker.
C10_ExactHintResolved ==
  ( Prepared /\ Len(slot.hintText) >= 3 /\ ExactItems # {} )
  => /\ mPrep.results[1] = Match(ITEMS[FirstExact].name, ScoreExact)
     /\ Len(mPrep.pendingIndices) = 0

\* a hint with capitals and padding has been resolved through an alias
C10_Witness ==
  /\ Prepared
  /\ Len(slot.hintText) >= 3
  /\ slot.hintText # CleanHint
  /\ \E k \in ExactItems :
       /\ toLowerCase(ITEMS[k].name) # CleanHint
       /\ mPrep.results[1] = Match(ITEMS[k].name, ScoreExact)
  /\ Len(mPrep.pendingIndices) = 0

\* the base names that have a stored vector
StoredNames == {allKeys[k].base : k \in 1..Len(allKeys)}

\* the labels of a ranked list
LabelsOf(ranked) == {ranked[k].label : k \in 1..Len(ranked)}

PlaceOf(ds, k) ==
  1 + Cardinality({j \in 1..Len(ds) : ds[j] < ds[k] \/ (ds[j] = ds[k] /\ j < k)})

\* C12: a hint of length >= 3 that the fast path leaves unresolved is posted
\* with a shortlist of the min(10, catalog size) items at the smallest edit
\* distance (the minimum over name and aliases), in ascending order of distance.
C12_ShortlistIsTheTenClosest ==
  ( /\ Prepared
    /\ Len(slot.hintText) >= 3
    /\ mPrep.results[1].null
    /\ ~blobToDataURLFails(slot.imageBlob) )
  => LET ds == Dists
         sent == mPrep.pendingCandidatesList[1]
     IN  /\ Len(mPrep.pendingCandidatesList) = 1
         /\ Len(sent) = Min2(10, Len(ITEMS))
         /\ \A k \in ItemIndices :
              PlaceOf(ds, k) <= 10 => sent[PlaceOf(ds, k)] = ITEMS[k].name

\* a shortlist of ten names has been cut from a longer catalog, and not in the
\* order of the catalog
C12_Witness ==
  /\ Prepared
  /\ Len(slot.hintText) >= 3
  /\ Len(ITEMS) > 10
  /\ Len(mPrep.pendingCandidatesList) = 1
  /\ Len(mPrep.pendingCandidatesList[1]) = 10
  /\ mPrep.pendingCandidatesList[1][1] # ITEMS[1].name
  /\ \E k \in 1..10 : \A j \in 1..10 : mPrep.pendingCandidatesList[1][j] # ITEMS[k].name

\* an 'x' at p, white space, then a digit at q
XThenDigit(s, p, q) ==
  /\ s[p] \in {"x", "X"}
  /\ q > p
  /\ \A m \in (p + 1)..(q - 1) : IsSpace(s[m])
  /\ IsDigit(s[q])

\* a maximal run of characters other than white space, from a to b
TokenAt(s, a, b) ==
  /\ a <= b
  /\ \A m \in a..b : ~IsSpace(s[m])
  /\ (a = 1 \/ IsSpace(s[a - 1]))
  /\ (b = Len(s) \/ IsSpace(s[b + 1]))

\* the tokens that are integers on their own
IntegerTokens(s) ==
  {t \in (1..Len(s)) \X (1..Len(s)) :
     TokenAt(s, t[1], t[2]) /\ \A m \in t[1]..t[2] : IsDigit(s[m])}

\* the quantity as the specification words it
StatedQty(s) ==
  IF \E p, q \in 1..Len(s) : XThenDigit(s, p, q)
  THEN LET p == CHOOSE p1 \in 1..Len(s) :
                  /\ \E q \in 1..Len(s) : XThenDigit(s, p1, q)
                  /\ \A p0 \in 1..(p1 - 1) : \A q \in 1..Len(s) : ~XThenDigit(s, p0, q)
           q == CHOOSE q1 \in 1..Len(s) : XThenDigit(s, p, q1)
           r == CHOOSE r1 \in q..Len(s) :
                  /\ \A m \in q..r1 : IsDigit(s[m])
                  /\ (r1 = Len(s) \/ ~IsDigit(s[r1 + 1]))
       IN  parseInt(SubSeq(s, q, r))
  ELSE IF IntegerTokens(s) # {}
  THEN LET t == CHOOSE t1 \in IntegerTokens(s) : \A t2 \in IntegerTokens(s) : t2[1] <= t1[1]
       IN  parseInt(SubSeq(s, t[1], t[2]))
  ELSE 1

\* C13: the quantity of a slot is the integer captured by the first
\* case-insensitive match of x\s*(\d+) in its hint; without such a match it is
\* the last token of the hint that is an integer on its own; otherwise it is 1.
C13_QuantityAsStated ==
  ( mpc = "done" /\ ~mResults[1].null ) => mQty = StatedQty(slot.hintText)

\* the answers of the worker that carry ranked lists
RankedReplies == {k \in 1..Len(toMain) : toMain[k].status = "success"}

\* the request a reply answers
RequestOf(m) == handlers[m.of].msg

\* the cosines of a crop with every stored vector of a base name
CosinesOf(img, base) ==
  {cosineSimilarity(ImageVec(img), embeddings[k].vec) :
     k \in {j \in 1..Len(embeddings) : embeddings[j].key.base = base}}

MaxOf(S) == CHOOSE x \in S : \A y \in S : y <= x

\* C14: the score reported for a name is the largest cosine of the crop's
\* vector with any stored vector of that name (base and variants), and a
\* reported list is sorted by descending score.
C14_ScoreIsMaxOverVariants ==
  \A k \in RankedReplies :
    \A idx \in 1..Len(toMain[k].results) :
      LET ranked == toMain[k].results[idx]
          img == RequestOf(toMain[k]).images[idx]
      IN  /\ \A n \in 1..Len(ranked) :
               ranked[n].label \in StoredNames
                 => ranked[n].score = MaxOf(CosinesOf(img, ranked[n].label))
          /\ \A n \in 1..(Len(ranked) - 1) : ranked[n].score >= ranked[n + 1].score

\* the names of a shortlist that have a stored vector
Remaining(cands) == SelectSeq(cands, LAMBDA c : c \in StoredNames)

\* C15: a request whose encoder and table loaded is answered 'success' even
\* when shortlisted names have no stored vector; the crop's list ranks exactly
\* the shortlisted names that have one, as if the others had not been listed,
\* and is the single entry "Unknown" with score 0 when none has one.
C15_MissingVectorsAreSkipped ==
  \A k \in 1..Len(toMain) :
    LET m == toMain[k]
        req == RequestOf(m)
    IN  (m.of > 0 /\ m.cause # "init") =>
          /\ m.status = "success"
          /\ \A idx \in 1..Len(req.images) :
               LET cands == req.candidatesList[idx]
                   ranked == m.results[idx]
               IN  Len(cands) > 0 =>
                     /\ Remaining(cands) = << >> => ranked = <<[label |-> Unknown, score |-> 0]>>
                     /\ Remaining(cands) # << >> =>
                          /\ {ranked[n].label : n \in 1..Len(ranked)} = {cands[n] : n \in 1..Len(cands)} \cap StoredNames
                          /\ ranked = rankCrop(ImageVec(req.images[idx]), Remaining(cands))

C15_Witness ==
  \E k \in RankedReplies :
    LET cands == RequestOf(toMain[k]).candidatesList[1]
    IN  /\ Len(cands) = 2
        /\ cands[1] = HerbalBandage
        /\ cands[2] \in StoredNames
        /\ Len(toMain[k].results[1]) = 1

\* a lies fully inside b, and is not b
Inside(a, b) ==
  /\ a # b
  /\ a.x >= b.x /\ a.x + a.width <= b.x + b.width
  /\ a.y >= b.y /\ a.y + a.height <= b.y + b.height

\* a and b share some area and neither lies inside the other
PartlyOverlap(a, b) ==
  a # b /\ Intersection(a, b) > 0 /\ ~Inside(a, b) /\ ~Inside(b, a)

InList(r, s) == \E k \in 1..Len(s) : s[k] = r

\* every use of a containment filter in the finished run: what it was given
\* and what it kept
FilterRuns ==
  IF seg.pc # "done" THEN {}
  ELSE IF seg.by = "detectInventorySlots"
       THEN {<<seg.blobs, seg.unique>>, <<seg.refined, seg.kept>>}
  ELSE IF seg.by = "detectInventorySlots016" THEN {<<seg.blobs, seg.kept>>}
  ELSE {}

\* C16: the containment filter keeps no rectangle that lies fully inside
\* another rectangle of its input, and keeps both of two rectangles of its
\* input that overlap partially, neither of them lying inside any rectangle
\* of the input.
C16_ContainmentFilter ==
  \A run \in FilterRuns :
    LET given == run[1]
        kept == run[2]
        N == 1..Len(given)
        free(i) == \A k \in N : ~Inside(given[i], given[k])
    IN  /\ \A i \in N : ~free(i) => ~InList(given[i], kept)
        /\ \A i, j \in N :
             (PartlyOverlap(given[i], given[j]) /\ free(i) /\ free(j))
               => (InList(given[i], kept) /\ InList(given[j], kept))

\* the gap between two rectangles along an axis: negative when they overlap
\* along it, 0 when they touch
GapX(a, b) == Max2(a.x, b.x) - Min2(a.x + a.width, b.x + b.width)

GapY(a, b) == Max2(a.y, b.y) - Min2(a.y + a.height, b.y + b.height)

\* no two rectangles of s have a gap of at most num / den on both axes
Separated(s, num, den) ==
  \A i, j \in 1..Len(s) :
    i # j => ~(den * GapX(s[i], s[j]) <= num /\ den * GapY(s[i], s[j]) <= num)

\* C17: in the result of the iterative merge no two rectangles have a gap of
\* at most the merge margin on both axes, and merging the result again
\* returns it unchanged.
C17_MergeIsAFixpoint ==
  seg.pc = "done" =>
    /\ seg.by = "findItemBlobs" =>
         /\ Separated(seg.merged, MERGE_DIST, 1)
         /\ mergeTouching(seg.merged) = seg.merged
    /\ seg.by = "detectInventorySlots019" =>
         /\ Separated(seg.merged, Max2(Image.width, Image.height), 50)
         /\ mergeNear(seg.merged) = seg.merged

\* C18: from a regular grid of equal cells with at most 30% of the cells
\* missing, grid inference returns one rectangle at every position of the
\* grid and no other.
C18_GridIsRestored ==
  (seg.pc = "done" /\ seg.by = "detectInventorySlots" /\ seg.grid # NoGrid) =>
    /\ Len(seg.refined) = seg.grid.rows * seg.grid.cols
    /\ \A cell \in Cells(seg.grid.rows, seg.grid.cols) :
         InList(GridCell(cell[1], cell[2]), seg.refined)

\* C19: the rectangles are returned row by row: of two rectangles whose y
\* differ by less than 5% of the image height the one with the smaller x
\* comes first, of any other two the one with the smaller y.
C19_RowMajorOrder ==
  (seg.pc = "done" /\ seg.by # "findItemBlobs") =>
    \A i, j \in 1..Len(seg.out) :
      i < j =>
        IF 20 * Abs(seg.out[i].y - seg.out[j].y) < Image.height
        THEN seg.out[i].x <= seg.out[j].x
        ELSE seg.out[i].y < seg.out[j].y

\* C20: a right click removes the rectangle drawn last among those that
\* contain the point and nothing else, the others keeping their order; where
\* no rectangle contains the point the list is left as it was.
C20_RemoveTakesTopmost ==
  lastEdit.op = "remove" =>
    LET before == lastEdit.before
        hit == {k \in 1..Len(before) : Contains(before[k], lastEdit.at)}
    IN  IF hit = {} THEN detectedBlobs = before
        ELSE detectedBlobs = RemoveAt(before, MaxOf(hit))

\* the cell the claim describes for rectangle b: b's centre, 1.35 times the
\* median width and height, in 40ths of the model's unit
IdealLeft(b, medianW) == 40 * b.x + 20 * b.width - 27 * medianW

IdealTop(b, medianH) == 40 * b.y + 20 * b.height - 27 * medianH

IdealFits(b, medianW, medianH) ==
  /\ IdealLeft(b, medianW) >= 0 /\ IdealLeft(b, medianW) + 54 * medianW <= 40 * Image.width
  /\ IdealTop(b, medianH) >= 0 /\ IdealTop(b, medianH) + 54 * medianH <= 40 * Image.height

IsIdeal(r, b, medianW, medianH) ==
  /\ 40 * r.x = IdealLeft(b, medianW) /\ 40 * r.width = 54 * medianW
  /\ 40 * r.y = IdealTop(b, medianH) /\ 40 * r.height = 54 * medianH

\* C21 as stated: after an expansion every rectangle has its old centre and
\* 1.35 times the median width and height of the rectangles before, and the
\* list has its old length and order.
C21_ExpandKeepsCentres ==
  lastEdit.op = "expand" =>
    LET before == lastEdit.before
        mw == getMedian(MapRects(before, "width", 1, << >>))
        mh == getMedian(MapRects(before, "height", 1, << >>))
    IN  /\ Len(detectedBlobs) = Len(before)
        /\ \A k \in 1..Len(before) : IsIdeal(detectedBlobs[k], before[k], mw, mh)

\* C21 as amended: the list keeps its length and order; a rectangle whose
\* cell fits in the image becomes that cell; any other becomes a rectangle
\* inside the image that is no larger than the cell.
C21_ExpandWithinImage ==
  lastEdit.op = "expand" =>
    LET before == lastEdit.before
        mw == getMedian(MapRects(before, "width", 1, << >>))
        mh == getMedian(MapRects(before, "height", 1, << >>))
    IN  /\ Len(detectedBlobs) = Len(before)
        /\ \A k \in 1..Len(before) :
             LET r == detectedBlobs[k]
             IN  /\ IdealFits(before[k], mw, mh) => IsIdeal(r, before[k], mw, mh)
                 /\ r.x >= 0 /\ r.y >= 0
                 /\ r.x + r.width <= Image.width /\ r.y + r.height <= Image.height
                 /\ 40 * r.width <= 54 * mw /\ 40 * r.height <= 54 * mh

C21_Witness ==
  /\ lastEdit.op = "expand" /\ Len(lastEdit.before) >= 2
  /\ detectedBlobs # lastEdit.before
  /\ \E k \in 1..Len(lastEdit.before) :
       lastEdit.before[k].width # getMedian(MapRects(lastEdit.before, "width", 1, << >>))

\* C22: the 'error' reply to an analyze_batch request leaves readyState at
\* 'ready', so a further image can be submitted.
C22_BatchErrorKeepsReady ==
  [][( /\ toMain # << >>
       /\ toMain' = Tail(toMain)
       /\ Head(toMain).status = "error"
       /\ Head(toMain).of > 0
       /\ Head(toMain).cause = "decode"
       /\ readyState = "ready" )
     => readyState' = "ready"]_vars

\* C28: where analyzeBatch posts its request, pendingIndices, pendingImages
\* and pendingCandidatesList have one length, and position k of each belongs
\* to the same input item.
C28_PendingListsAligned ==
  [][Len(toWorker') = Len(toWorker) + 1 =>
       LET m == toWorker'[Len(toWorker')]
           call == calls'[m.from]
       IN  /\ Len(call.pendingIndices) = Len(m.images)
           /\ Len(m.candidatesList) = Len(m.images)
           /\ \A k \in 1..Len(m.images) :
                LET it == call.items[call.pendingIndices[k]]
                IN  /\ m.images[k] = blobToDataURL(it.imageBlob)
                    /\ m.candidatesList[k] = Shortlist(it.hintText)]_vars

\* C30: every pass of a merge loop that merges shortens the list, the loop
\* ends with the first pass that merges nothing, and so it ends for every
\* list; what it leaves is the list the loop as a whole computes.
C30_MergeLoopTerminates ==
  /\ [][seg.pc = "merge" =>
          /\ seg'.pc = "merge" => Len(seg'.merged) < Len(seg.merged)
          /\ Len(seg'.merged) >= Len(seg.merged) =>
               seg'.pc = "done" /\ seg'.merged = seg.merged]_vars
  /\ [](seg.pc = "done" =>
          seg.merged = IF seg.by = "findItemBlobs" THEN mergeTouching(seg.blobs)
                       ELSE mergeNear(seg.blobs))
  /\ <>(seg.pc = "done")

\* after a pass that merged, the next pass of part_018's loop merges again
C30_Witness ==
  /\ seg.pc = "merge" /\ seg.by = "findItemBlobs"
  /\ Len(seg.merged) < Len(seg.blobs)
  /\ Len(MergePass(seg.merged, 1, {}, << >>)) < Len(seg.merged)

\* the pixels of the component with root l
Component(l) ==
  {i \in Pixels : pix.labels[i] # 0 /\ find(pix.parent, pix.labels[i]) = l}

\* C29: every rectangle handed to the filters is the bounding box of its
\* component's pixels: x and y are the smallest, x + width - 1 and
\* y + height - 1 the largest coordinates, so width and height are positive
\* and the rectangle lies inside the image.
C29_BlobsAreBoundingBoxes ==
  pix.pc = "blobs" =>
    \A l \in 1..PixSize :
      pix.blobs[l].set =>
        LET r == realRect(pix.blobs[l])
            xs == {i % PixW : i \in Component(l)}
            ys == {i \div PixW : i \in Component(l)}
        IN  /\ xs # {}
            /\ \A v \in xs : r.x <= v /\ v <= r.x + r.width - 1
            /\ \A v \in ys : r.y <= v /\ v <= r.y + r.height - 1
            /\ r.x \in xs /\ r.x + r.width - 1 \in xs
            /\ r.y \in ys /\ r.y + r.height - 1 \in ys
            /\ r.width > 0 /\ r.height > 0
            /\ r.x >= 0 /\ r.y >= 0 /\ r.x + r.width <= PixW /\ r.y + r.height <= PixH

\* nothing is on its way: no message waits on either side and no handler of
\* the worker is running
Quiet ==
  /\ toWorker = << >> /\ toMain = << >>
  /\ \A h \in 0..NumCalls : handlers[h].pc \in {"none", "done"}

\* C26: the worker posts one response, 'success' or 'error', with the id of
\* every analyze_batch message it handles, and the call that registered its
\* promise under that id returns: once nothing is on its way any more, no
\* call is still waiting.
C26_EveryRequestIsAnswered ==
  /\ [][\A k \in (Len(toMain) + 1)..Len(toMain') :
          toMain'[k].of > 0 =>
            /\ handlers[toMain'[k].of].pc # "done"
            /\ handlers'[toMain'[k].of].pc = "done"
            /\ toMain'[k].id = handlers'[toMain'[k].of].msg.id
            /\ toMain'[k].status \in {"success", "error"}]_vars
  /\ [](Quiet => \A c \in Calls : calls[c].pc # "waiting")

Running(r) == app.runs[r].pc \in {"prepare", "await"}

\* C23: once a newer analysis has started, no result of an earlier one is
\* written to the displayed result list.
C23_NoResultOfASupersededRun ==
  [][app.pc = "on" /\ app.results' # app.results =>
       \A q \in Runs : q > app.results'.by => app.runs[q].pc = "idle"]_vars

RECURSIVE Flat(_, _, _)
Flat(chunks, k, acc) ==
  IF k > Len(chunks) THEN acc ELSE Flat(chunks, k + 1, acc \o chunks[k])

\* C24: the chunks of a run hold at most 4 items each and are, one after the
\* other, the prepared items in input order, each item once; a chunk is
\* handed over only when the call of the chunk before has settled, so a run
\* has at most one request in flight.
C24_ChunksInSequence ==
  app.pc = "on" =>
    \A r \in Runs :
      LET run == app.runs[r]
          handed == Flat(run.chunks, 1, << >>)
          flying == {f \in app.inflight : f.run = r}
      IN  /\ \A k \in 1..Len(run.chunks) : Len(run.chunks[k]) \in 1..4
          /\ Len(handed) <= run.preparedItems
          /\ \A k \in 1..Len(handed) : handed[k] = k
          /\ run.pc = "done" /\ run.blobs > 0 => Len(handed) = run.preparedItems
          /\ Cardinality(flying) <= 1
          /\ flying # {} => run.pc = "await" /\ flying = {[run |-> r, chunk |-> run.chunks[Len(run.chunks)]]}
          /\ run.processedCount = Len(handed) - (IF flying = {} THEN 0 ELSE Len(run.chunks[Len(run.chunks)]))

C24_Witness ==
  \E r \in Runs :
    /\ app.pc = "on" /\ app.runs[r].pc = "await"
    /\ Len(app.runs[r].chunks) = 2 /\ Len(app.runs[r].chunks[2]) = 1
    /\ app.runs[r].failed = 1

C27_AnalyzingUntilTheEnd ==
  app.pc = "on" =>
    \A r \in Runs :
      ( /\ Running(r) /\ \A q \in Runs \ {r} : app.runs[q].pc = "idle"
        /\ readyState = "ready" )
      => app.modelStatus # "ready"

====
